---- MODULE Spec2Model ----
\* Reframe: job lifecycle between the Job API (apps/api/app/api.py), the
\* broker and the worker runtime (services/worker/worker.py).
\*
\* Conventions of the translation:
\*   - UUIDs are positive integers handed out by counters; 0 is a null id.
\*   - a float progress p is kept in thousandths (0.1 is 100, 1.0 is 1000).
\*   - Python dicts are functions over a set of string keys; JSON values
\*     are tagged records so that int("abc") can fail as it does in Python.
\*   - the uri of a local asset is the id of the asset it locates.
\*   - None is the string "None" for status and error, NoProgress for an
\*     omitted progress, NoId for an omitted id and the empty dict for an
\*     omitted payload.
EXTENDS Integers, Sequences, FiniteSets, TLC

VARIABLES jobs, assets, next_asset_id, requests, broker, tasks, response,
          environ, now, rate_limiter, admitted, tmp_files, upload, call

vars == <<jobs, assets, next_asset_id, requests, broker, tasks, response,
          environ, now, rate_limiter, admitted, tmp_files, upload, call>>

\* the job store, the broker and the worker
job_vars == <<jobs, assets, next_asset_id, requests, broker, tasks, response>>

\* the process environment, the clock, the rate limiter and the requests it
\* admitted, the files under
\* {media_root}/tmp, the upload in progress and the library call under observation
other_vars == <<environ, now, rate_limiter, admitted, tmp_files, upload, call>>

\* ------------------------------------------------------------------ bounds
MaxJobs == 1
MaxDeliveries == 2
MaxAssets == 9
MaxWorkers == 1

JobIds == 1..MaxJobs

\* --------------------------------------------------------------- constants
NoId == 0
NoProgress == 0 - 1
ProgressQueued == 0
ProgressStarted == 100
ProgressDone == 1000
ProgressCancelled == 0
ClipProgressSpan == 800
DefaultMaxClips == 3
DefaultMinDuration == 10
DefaultMaxDuration == 60
VideoDuration == 100
MissingAssetId == MaxAssets + 1

\* JobStatus (models.py)
JobStatus == {"queued", "running", "completed", "failed", "cancelled"}
TerminalStatuses == {"completed", "failed", "cancelled"}

\* ------------------------------------------------------------ JSON values
EmptyDict == [k \in {} |-> NoId]
JNone == [t |-> "none", v |-> 0]
JInt(n) == [t |-> "int", v |-> n]
JStr(s) == [t |-> "str", s |-> s]

\* dict.get(key): None when the key is absent
Get(d, k) == IF k \in DOMAIN d THEN d[k] ELSE JNone

\* Python truthiness of a JSON value, as used by `x or default`
Truthy(x) ==
    CASE x.t = "none" -> FALSE
      [] x.t = "int" -> x.v # 0
      [] x.t = "str" -> x.s # ""
      [] OTHER -> TRUE

OrDefault(x, d) == IF Truthy(x) THEN x ELSE d

\* the decimal numerals the inputs use; any other string is not a number
NumeralValue == ("1" :> 1) @@ ("2" :> 2) @@ ("42" :> 42)

\* int(x) / float(x): TRUE when Python raises ValueError
RaisesValueError(x) == x.t = "str" /\ x.s \notin DOMAIN NumeralValue

NumberOf(x) == IF x.t = "int" THEN x.v ELSE NumeralValue[x.s]

\* variant: a dict held under the same key by both sides is merged key by key
MergeNested(a, b) ==
    [k \in (DOMAIN a) \cup (DOMAIN b) |->
       IF k \in DOMAIN b
         THEN IF k \in DOMAIN a /\ "t" \notin DOMAIN a[k] /\ "t" \notin DOMAIN b[k]
                THEN [n \in (DOMAIN a[k]) \cup (DOMAIN b[k]) |->
                        IF n \in DOMAIN b[k] THEN b[k][n] ELSE a[k][n]]
                ELSE b[k]
         ELSE a[k]]

\* variant: {**b, **a}, a key both sides hold keeps its old value
MergeKeepingOld(a, b) ==
    [k \in (DOMAIN a) \cup (DOMAIN b) |-> IF k \in DOMAIN a THEN a[k] ELSE b[k]]

\* {**a, **b}
Merge(a, b) ==
    [k \in (DOMAIN a) \cup (DOMAIN b) |-> IF k \in DOMAIN b THEN b[k] ELSE a[k]]

\* ----------------------------------------------------------------- models
\* Job(...) as the endpoints construct it (models.py Job defaults)
NewJob(job_type, input_asset_id, payload) ==
    [job_type |-> job_type, task_id |-> NoId, status |-> "queued",
     progress |-> ProgressQueued, error |-> "None", payload |-> payload,
     input_asset_id |-> input_asset_id, output_asset_id |-> NoId]

MediaAsset(kind, suffix) == [kind |-> kind, suffix |-> suffix, file |-> TRUE]

NextJobId == Cardinality(DOMAIN requests) + 1

\* the HTTP response the step sends; a step of the job API or of the worker
\* leaves the clock, the limiter, the tmp files, uploads and library calls alone
Respond(op, j, code) ==
    /\ response' = [op |-> op, job |-> j, code |-> code]
    /\ UNCHANGED other_vars

\* a step that answers no request
NoResponse ==
    /\ response' = [op |-> "none", job |-> NoId, code |-> "none"]
    /\ UNCHANGED other_vars

\* ------------------------------------------------------------ API: create
\* save_and_dispatch, first half: the row is committed, send_task is next
save_and_dispatch(job, task_name, asset_id, opts) ==
    /\ jobs' = jobs @@ (NextJobId :> job)
    /\ requests' = requests @@
         (NextJobId :> [pc |-> "enqueue", task_name |-> task_name,
                        asset_id |-> asset_id, opts |-> opts, task_id |-> NoId])
    /\ UNCHANGED <<assets, next_asset_id, broker, tasks>> /\ NoResponse

CaptionOptions ==
    { EmptyDict, [max_chars_per_line |-> JStr("abc")] }

create_caption_job(video_asset_id, options) ==
    save_and_dispatch(NewJob("captions", video_asset_id, options),
                      "tasks.generate_captions", video_asset_id, options)

create_translate_job(subtitle_asset_id, target_language, options) ==
    LET payload == Merge([target_language |-> JStr(target_language)], options)
    IN save_and_dispatch(NewJob("translate_subtitles", subtitle_asset_id, payload),
                         "tasks.translate_subtitles", subtitle_asset_id, payload)

create_shorts_job(video_asset_id, max_clips, min_duration, max_duration, options) ==
    LET payload == Merge([max_clips |-> JInt(max_clips),
                          min_duration |-> JInt(min_duration),
                          max_duration |-> JInt(max_duration),
                          aspect_ratio |-> JStr("9:16")], options)
    IN save_and_dispatch(NewJob("shorts", video_asset_id, payload),
                         "tasks.generate_shorts", video_asset_id, payload)

\* the id the broker returns for the next published task
NextTaskId == Cardinality(DOMAIN broker) + 1

\* variant: the endpoint goes on as if the task had been published
enqueue_job_unpublished(j) ==
    /\ j \in DOMAIN requests
    /\ requests[j].pc = "enqueue"
    /\ requests' = [requests EXCEPT ![j].pc = "set_task_id", ![j].task_id = NextTaskId]
    /\ UNCHANGED <<jobs, assets, next_asset_id, broker, tasks>> /\ NoResponse

\* enqueue_job: send_task succeeds and returns the task id
enqueue_job_ok(j) ==
    /\ j \in DOMAIN requests
    /\ requests[j].pc = "enqueue"
    /\ broker' = broker @@
         (j :> [task_name |-> requests[j].task_name, asset_id |-> requests[j].asset_id,
                opts |-> requests[j].opts, task_id |-> NextTaskId,
                deliveries |-> 0])
    /\ requests' = [requests EXCEPT ![j].pc = "set_task_id", ![j].task_id = NextTaskId]
    /\ UNCHANGED <<jobs, assets, next_asset_id, tasks>> /\ NoResponse

\* variant: the failure handler marks the row failed
enqueue_job_fail_marks_row(j) ==
    /\ j \in DOMAIN requests
    /\ requests[j].pc = "enqueue"
    /\ requests' = [requests EXCEPT ![j].pc = "failed"]
    /\ jobs' = [k \in DOMAIN jobs |-> IF k = j THEN [jobs[k] EXCEPT !.status = "failed"] ELSE jobs[k]]
    /\ Respond("create", j, "SERVER_ERROR")
    /\ UNCHANGED <<assets, next_asset_id, broker, tasks>>

\* enqueue_job: send_task raises, the endpoint answers SERVER_ERROR
enqueue_job_fail(j) ==
    /\ j \in DOMAIN requests
    /\ requests[j].pc = "enqueue"
    /\ requests' = [requests EXCEPT ![j].pc = "failed"]
    /\ Respond("create", j, "SERVER_ERROR")
    /\ UNCHANGED <<jobs, assets, next_asset_id, broker, tasks>>

\* the row as save_and_dispatch's second commit leaves it
WithTaskId(job, task_id) == [job EXCEPT !.task_id = task_id]

\* save_and_dispatch, second half: job.task_id = task_id; commit
save_task_id(j) ==
    /\ j \in DOMAIN requests
    /\ requests[j].pc = "set_task_id"
    /\ j \in DOMAIN jobs
    /\ jobs' = [jobs EXCEPT ![j] = WithTaskId(@, requests[j].task_id)]
    /\ requests' = [requests EXCEPT ![j].pc = "done"]
    /\ Respond("create", j, "CREATED")
    /\ UNCHANGED <<assets, next_asset_id, broker, tasks>>

\* ------------------------------------------------------------ API: cancel
\* the row a successful cancel commits
Cancelled(job) == [job EXCEPT !.status = "cancelled", !.progress = ProgressCancelled]

\* variant: only completed and failed count as finished
cancel_job_idempotent(j) ==
    /\ IF j \notin DOMAIN jobs
         THEN Respond("cancel", j, "NOT_FOUND") /\ UNCHANGED jobs
         ELSE IF jobs[j].status \in {"completed", "failed"}
           THEN Respond("cancel", j, "CONFLICT") /\ UNCHANGED jobs
           ELSE /\ jobs' = [jobs EXCEPT ![j] = Cancelled(@)]
                /\ Respond("cancel", j, "OK")
    /\ UNCHANGED <<assets, next_asset_id, requests, broker, tasks>>

cancel_job(j) ==
    /\ IF j \notin DOMAIN jobs
         THEN Respond("cancel", j, "NOT_FOUND") /\ UNCHANGED jobs
         ELSE IF jobs[j].status \in TerminalStatuses
           THEN Respond("cancel", j, "CONFLICT") /\ UNCHANGED jobs
           ELSE /\ jobs' = [jobs EXCEPT ![j] = Cancelled(@)]
                /\ Respond("cancel", j, "OK")
    /\ UNCHANGED <<assets, next_asset_id, requests, broker, tasks>>

\* ------------------------------------------------- media_core.segment.shorts
Min(a, b) == IF a < b THEN a ELSE b
Max(a, b) == IF a > b THEN a ELSE b

SegmentCandidate(start, end, score) == [start |-> start, end |-> end, score |-> score]

Duration(c) == Max(0, c.end - c.start)

RECURSIVE SplitsUnclamped(_, _, _)
RECURSIVE Splits(_, _, _)
\* variant: the last span keeps the full clip length
SplitsUnclamped(t, duration, clip_length) ==
    IF t < duration
      THEN <<SegmentCandidate(t, t + clip_length, 0)>>
             \o SplitsUnclamped(t + clip_length, duration, clip_length)
      ELSE <<>>

\* the while loop of equal_splits, entered with t
Splits(t, duration, clip_length) ==
    IF t < duration
      THEN <<SegmentCandidate(t, Min(duration, t + clip_length), 0)>>
             \o Splits(t + clip_length, duration, clip_length)
      ELSE <<>>

equal_splits(duration, clip_length) ==
    IF duration <= 0 \/ clip_length <= 0 THEN <<>> ELSE Splits(0, duration, clip_length)

\* list.sort / sorted: a stable sort; key is "end_start" for
\* key=lambda c: (c.end, c.start) and "start" for key=lambda c: c.start
Before(a, b, key) ==
    IF key = "end_start"
      THEN a.end < b.end \/ (a.end = b.end /\ a.start < b.start)
      ELSE a.start < b.start

RECURSIVE Insert(_, _, _)
Insert(x, s, key) ==
    IF s = <<>> THEN <<x>>
    ELSE IF Before(x, Head(s), key) THEN <<x>> \o s
    ELSE <<Head(s)>> \o Insert(x, Tail(s), key)

RECURSIVE Sorted(_, _)
Sorted(s, key) ==
    IF s = <<>> THEN <<>>
    ELSE Insert(s[Len(s)], Sorted(SubSeq(s, 1, Len(s) - 1), key), key)

\* variant: the cutoff is the start of the interval, without the gap
PredIgnoringGap(intervals, i, min_gap) ==
    Cardinality({j \in 1..(i - 1) : intervals[j].end <= intervals[i].start})

\* p[i]: bisect_right(ends, cutoff, 0, i) over the sorted ends
Pred(intervals, i, min_gap) ==
    Cardinality({j \in 1..(i - 1) : intervals[j].end <= intervals[i].start - min_gap})

RECURSIVE DP(_, _, _, _)
DP(intervals, min_gap, i, k) ==
    IF i = 0 \/ k = 0 THEN 0
    ELSE LET skip == DP(intervals, min_gap, i - 1, k)
             take == intervals[i].score + DP(intervals, min_gap, Pred(intervals, i, min_gap), k - 1)
         IN IF take > skip THEN take ELSE skip

RECURSIVE Reconstruct(_, _, _, _)
Reconstruct(intervals, min_gap, i, k) ==
    IF i > 0 /\ k > 0
      THEN LET pred == Pred(intervals, i, min_gap)
           IN IF intervals[i].score + DP(intervals, min_gap, pred, k - 1)
                   > DP(intervals, min_gap, i - 1, k)
                THEN <<intervals[i]>> \o Reconstruct(intervals, min_gap, pred, k - 1)
                ELSE Reconstruct(intervals, min_gap, i - 1, k)
      ELSE <<>>

\* variant: at most one segment is selected
select_top_single(candidates, max_segments, min_duration, max_duration, min_gap) ==
    LET Keep(c) == Duration(c) >= min_duration /\ Duration(c) <= max_duration /\ c.start < c.end
        filtered == SelectSeq(candidates, Keep)
        intervals == Sorted(filtered, "end_start")
        n == Len(intervals)
        k_max == Min(1, n)
    IN IF max_segments <= 0 \/ filtered = <<>> THEN <<>>
       ELSE Sorted(Reconstruct(intervals, min_gap, n, k_max), "start")

select_top(candidates, max_segments, min_duration, max_duration, min_gap) ==
    LET Keep(c) == Duration(c) >= min_duration /\ Duration(c) <= max_duration /\ c.start < c.end
        filtered == SelectSeq(candidates, Keep)
        intervals == Sorted(filtered, "end_start")
        n == Len(intervals)
        k_max == Min(max_segments, n)
    IN IF max_segments <= 0 \/ filtered = <<>> THEN <<>>
       ELSE Sorted(Reconstruct(intervals, min_gap, n, k_max), "start")

\* ------------------------------------------------------------------ worker
\* create_asset / create_asset_for_existing_file: a new MediaAsset row and file
AssetsWith(rows, first_id, new) ==
    rows @@ [a \in first_id..(first_id + Len(new) - 1) |-> new[a - first_id + 1]]

create_assets(new) ==
    /\ next_asset_id + Len(new) - 1 <= MaxAssets
    /\ assets' = AssetsWith(assets, next_asset_id, new)
    /\ next_asset_id' = next_asset_id + Len(new)

\* fetch_asset: the row and its path; the step fails when either is missing
FileExists(asset_id) == asset_id \in DOMAIN assets /\ assets[asset_id].file

\* variant: the row is rebuilt from the fields the worker knows
UpdatedJobWithoutTaskId(job, status, progress, error, payload, output_asset_id) ==
    [job EXCEPT !.status = IF status # "None" THEN status ELSE @,
                !.progress = IF progress # NoProgress THEN progress ELSE @,
                !.error = IF error # "None" /\ error # "" THEN error ELSE @,
                !.payload = IF DOMAIN payload # {} THEN Merge(@, payload) ELSE @,
                !.output_asset_id = IF output_asset_id # NoId THEN output_asset_id ELSE @,
                !.task_id = NoId]

\* the row update_job commits
UpdatedJob(job, status, progress, error, payload, output_asset_id) ==
    [job EXCEPT !.status = IF status # "None" THEN status ELSE @,
                !.progress = IF progress # NoProgress THEN progress ELSE @,
                !.error = IF error # "None" /\ error # "" THEN error ELSE @,
                !.payload = IF DOMAIN payload # {} THEN Merge(@, payload) ELSE @,
                !.output_asset_id = IF output_asset_id # NoId THEN output_asset_id ELSE @]

update_job(j, status, progress, error, payload, output_asset_id) ==
    jobs' = IF j \in DOMAIN jobs
              THEN [jobs EXCEPT ![j] = UpdatedJob(@, status, progress, error, payload, output_asset_id)]
              ELSE jobs

\* the locals of a task function that is entered or has returned
NoLocals(pc) == [pc |-> pc, warnings |-> <<>>, selected |-> <<>>, idx |-> 0, clips |-> <<>>]

\* the jobs whose task an executor of the pool is running
Executing == {k \in DOMAIN tasks : tasks[k].pc \notin {"done", "crashed"}}

\* the number of times the broker has handed the tasks of S to an executor
RECURSIVE Delivered(_)
Delivered(S) ==
    IF S = {} THEN 0
    ELSE LET k == CHOOSE x \in S : TRUE
         IN broker[k].deliveries + Delivered(S \ {k})

\* a free executor of the pool takes the task of job j and enters it
Handed(j) ==
    /\ j \notin Executing
    /\ Cardinality(Executing) < MaxWorkers
    /\ Delivered(DOMAIN broker) < MaxDeliveries
    /\ broker' = [broker EXCEPT ![j].deliveries = @ + 1]
    /\ tasks' = [k \in (DOMAIN tasks) \cup {j} |->
                   IF k = j THEN NoLocals("start") ELSE tasks[k]]
    /\ UNCHANGED <<jobs, assets, next_asset_id, requests>> /\ NoResponse

\* the broker hands a published task to an executor
deliver(j) ==
    /\ j \in DOMAIN broker
    /\ broker[j].deliveries = 0
    /\ Handed(j)

\* at-least-once delivery: the broker hands out a delivered task again
redeliver(j) ==
    /\ j \in DOMAIN broker
    /\ broker[j].deliveries >= 1
    /\ Handed(j)

Running(j, task_name, pc) ==
    /\ j \in DOMAIN tasks
    /\ broker[j].task_name = task_name
    /\ tasks[j].pc = pc

Goto(j, pc) ==
    tasks' = [tasks EXCEPT ![j] = IF pc \in {"done", "crashed"} THEN NoLocals(pc)
                                  ELSE [@ EXCEPT !.pc = pc]]

\* every task: update_job(job_id, status=JobStatus.running, progress=0.1)
task_start(j) ==
    /\ j \in DOMAIN tasks
    /\ tasks[j].pc = "start"
    /\ update_job(j, "running", ProgressStarted, "None", EmptyDict, NoId)
    /\ Goto(j, "fetch")
    /\ UNCHANGED <<assets, next_asset_id, requests, broker>> /\ NoResponse

\* a handled failure: update_job(status=failed, progress=1.0, error=error); return
task_fail(j, error) ==
    /\ update_job(j, "failed", ProgressDone, error, EmptyDict, NoId)
    /\ Goto(j, "done")
    /\ UNCHANGED <<assets, next_asset_id, requests, broker>> /\ NoResponse

\* an exception no handler catches: the task ends, the row is left as it is
task_raise(j) ==
    /\ Goto(j, "crashed")
    /\ UNCHANGED <<jobs, assets, next_asset_id, requests, broker>> /\ NoResponse

\* the task's work goes on without touching the store
task_goto(j, pc) ==
    /\ Goto(j, pc)
    /\ UNCHANGED <<jobs, assets, next_asset_id, requests, broker>> /\ NoResponse

Args(j) == broker[j]

\* ------------------------------------------------- tasks.generate_captions
DefaultMaxCharsPerLine == 40

\* backend_raw -> TranscriptionBackend, with the warnings of the fallbacks
CaptionBackend(opts) ==
    LET raw == OrDefault(Get(opts, "backend"), JStr("noop")).s
    IN IF raw \in {"noop", "faster_whisper", "whisper_cpp", "openai_whisper",
                   "whisper_timestamped", "whisperx"}
         THEN raw ELSE "noop"

CaptionBackendWarnings(opts) ==
    LET raw == OrDefault(Get(opts, "backend"), JStr("noop")).s
    IN IF raw = "whisper" THEN <<"backend 'whisper' is ambiguous; using noop">>
       ELSE IF CaptionBackend(opts) # raw THEN <<"Unknown backend; using noop.">>
       ELSE <<>>

\* value.strip().lower() of the values the environments and options hold
Lowered ==
    ("" :> "") @@ ("0" :> "0") @@ ("1" :> "1") @@ (" On " :> "on") @@ ("S3" :> "s3")
       @@ ("local" :> "local")

\* os.getenv(name, default)
getenv(name, default) == IF name \in DOMAIN environ THEN environ[name] ELSE default

\* worker._truthy_env
truthy_env(name) == Lowered[getenv(name, "")] \in {"1", "true", "yes", "on"}

offline_mode_enabled == truthy_env("REFRAME_OFFLINE_MODE")

\* the backend of the TranscriptionConfig: openai_whisper is refused offline
PreflightBackend(opts) ==
    IF CaptionBackend(opts) = "openai_whisper" /\ offline_mode_enabled
      THEN "noop" ELSE CaptionBackend(opts)

OfflineWarnings(opts) ==
    IF CaptionBackend(opts) = "openai_whisper" /\ offline_mode_enabled
      THEN <<"Offline mode enabled; refusing openai_whisper and using noop.">>
      ELSE <<>>

\* the transcribe_* function _transcribe_media calls for config.backend
TranscriptionCalled(backend) ==
    IF backend = "openai_whisper" /\ offline_mode_enabled THEN "noop" ELSE backend

\* _coerce_bool
coerce_bool(value) ==
    CASE value.t = "int" -> value.v # 0
      [] value.t = "str" -> value.s \in {"1", "true", "yes", "on"}
      [] OTHER -> FALSE

DiarizationBackend(opts) ==
    LET raw == OrDefault(Get(opts, "diarization_backend"), JStr("noop")).s
    IN IF raw \in {"noop", "pyannote", "speechbrain"} THEN raw ELSE "noop"

DiarizationBackendWarnings(opts) ==
    LET raw == OrDefault(Get(opts, "diarization_backend"), JStr("noop")).s
    IN IF DiarizationBackend(opts) # raw
         THEN <<"Unknown diarization backend; using noop.">> ELSE <<>>

\* the backend diarize_audio runs, "none" when the step is skipped or refused
DiarizationCalled(opts) ==
    IF /\ coerce_bool(Get(opts, "speaker_labels"))
       /\ DiarizationBackend(opts) # "noop"
       /\ ~(DiarizationBackend(opts) = "pyannote" /\ offline_mode_enabled)
      THEN DiarizationBackend(opts) ELSE "none"

DiarizationWarnings(opts, diarization_raises) ==
    IF coerce_bool(Get(opts, "speaker_labels")) /\ DiarizationBackend(opts) # "noop"
      THEN IF DiarizationBackend(opts) = "pyannote" /\ offline_mode_enabled
             THEN <<"Offline mode enabled; refusing pyannote diarization">>
             ELSE IF diarization_raises THEN <<"Speaker diarization failed">> ELSE <<>>
      ELSE <<>>

CaptionResult(j, asset_id) ==
    [video_asset_id |-> JInt(Args(j).asset_id),
     status |-> JStr("captions_generated"),
     options |-> Args(j).opts,
     transcription_backend |-> JStr(PreflightBackend(Args(j).opts)),
     warnings |-> tasks[j].warnings,
     output_asset_id |-> JInt(asset_id)]

\* the backends a captions task has run, and whether the transcription raised
BackendsCalled(transcription, diarization, raised) ==
    [fn |-> "generate_captions", transcription |-> transcription,
     diarization |-> diarization, raised |-> raised]

\* a step of the worker that runs backends
CalledOnly(backends) ==
    /\ call' = backends
    /\ response' = [op |-> "none", job |-> NoId, code |-> "none"]
    /\ UNCHANGED <<environ, now, rate_limiter, admitted, tmp_files, upload>>

\* variant: a backend that raises fails the job
captions_transcribe_failing(j, backend_raises, diarization_raises) ==
    /\ Running(j, "tasks.generate_captions", "fetch")
    /\ IF ~FileExists(Args(j).asset_id)
         THEN /\ ~backend_raises /\ ~diarization_raises
              /\ task_fail(j, "Video asset file missing")
         ELSE LET opts == Args(j).opts
                  transcription == TranscriptionCalled(PreflightBackend(opts))
                  malformed ==
                      RaisesValueError(OrDefault(Get(opts, "max_chars_per_line"),
                                                 JInt(DefaultMaxCharsPerLine)))
              IN /\ backend_raises => transcription # "noop"
                 /\ diarization_raises => ~malformed /\ DiarizationCalled(opts) # "none"
                 /\ IF backend_raises
                      THEN /\ update_job(j, "failed", ProgressDone, "Transcription failed",
                                         EmptyDict, NoId)
                           /\ Goto(j, "done")
                           /\ CalledOnly(BackendsCalled(transcription, "none", backend_raises))
                      ELSE IF malformed
                        THEN /\ Goto(j, "crashed")
                             /\ CalledOnly(BackendsCalled(transcription, "none", backend_raises))
                             /\ UNCHANGED jobs
                        ELSE /\ tasks' = [tasks EXCEPT ![j].pc = "finish",
                                   ![j].warnings = CaptionBackendWarnings(opts)
                                       \o OfflineWarnings(opts)
                                       \o DiarizationBackendWarnings(opts)
                                       \o DiarizationWarnings(opts, diarization_raises)]
                             /\ CalledOnly(BackendsCalled(transcription, DiarizationCalled(opts),
                                                          backend_raises))
                             /\ UNCHANGED jobs
                 /\ UNCHANGED <<assets, next_asset_id, requests, broker>>

\* fetch_asset, the backend choice, _transcribe_media (a backend that raises is
\* replaced by noop with a warning), then GroupingConfig(max_chars_per_line=
\* int(opts.get(...) or default), ...), group_words and the diarization
captions_transcribe(j, backend_raises, diarization_raises) ==
    /\ Running(j, "tasks.generate_captions", "fetch")
    /\ IF ~FileExists(Args(j).asset_id)
         THEN /\ ~backend_raises /\ ~diarization_raises
              /\ task_fail(j, "Video asset file missing")
         ELSE LET opts == Args(j).opts
                  transcription == TranscriptionCalled(PreflightBackend(opts))
                  malformed ==
                      RaisesValueError(OrDefault(Get(opts, "max_chars_per_line"),
                                                 JInt(DefaultMaxCharsPerLine)))
              IN /\ backend_raises => transcription # "noop"
                 /\ diarization_raises => ~malformed /\ DiarizationCalled(opts) # "none"
                 /\ IF malformed
                      THEN /\ Goto(j, "crashed")
                           /\ CalledOnly(BackendsCalled(transcription, "none", backend_raises))
                      ELSE /\ tasks' = [tasks EXCEPT ![j].pc = "finish",
                                 ![j].warnings = CaptionBackendWarnings(opts)
                                     \o OfflineWarnings(opts)
                                     \o (IF backend_raises
                                           THEN <<"Transcription backend failed; falling back to noop">>
                                           ELSE <<>>)
                                     \o DiarizationBackendWarnings(opts)
                                     \o DiarizationWarnings(opts, diarization_raises)]
                           /\ CalledOnly(BackendsCalled(transcription, DiarizationCalled(opts),
                                                          backend_raises))
                 /\ UNCHANGED <<jobs, assets, next_asset_id, requests, broker>>

\* to_srt; create_asset; update_job(status=completed, ...)
captions_finish(j) ==
    /\ Running(j, "tasks.generate_captions", "finish")
    /\ create_assets(<<MediaAsset("subtitle", ".srt")>>)
    /\ update_job(j, "completed", ProgressDone, "None",
                  CaptionResult(j, next_asset_id), next_asset_id)
    /\ Goto(j, "done")
    /\ UNCHANGED <<requests, broker>> /\ NoResponse

generate_captions(j) ==
    \/ \E backend_raises, diarization_raises \in BOOLEAN :
          captions_transcribe(j, backend_raises, diarization_raises)
    \/ captions_finish(j)

\* ----------------------------------------------- tasks.translate_subtitles
TranslateResult(j, asset_id) ==
    [subtitle_asset_id |-> JInt(Args(j).asset_id),
     status |-> JStr("translated"),
     options |-> Args(j).opts,
     target_language |-> Get(Args(j).opts, "target_language"),
     warnings |-> tasks[j].warnings,
     output_asset_id |-> JInt(asset_id)]

\* fetch_asset, target_language, the suffix test, then translate_srt
translate_run(j, translation_raises) ==
    /\ Running(j, "tasks.translate_subtitles", "fetch")
    /\ IF ~FileExists(Args(j).asset_id)
         THEN ~translation_raises /\ task_fail(j, "Subtitle asset file missing")
         ELSE IF ~Truthy(Get(Args(j).opts, "target_language"))
           THEN ~translation_raises /\ task_fail(j, "Missing target_language")
           ELSE IF assets[Args(j).asset_id].suffix \notin {".srt", ".vtt"}
             THEN /\ ~translation_raises
                  /\ task_fail(j, "Only .srt/.vtt subtitles are supported")
             ELSE IF translation_raises
               THEN task_fail(j, "Subtitle translation failed")
               ELSE task_goto(j, "finish")

translate_finish(j) ==
    /\ Running(j, "tasks.translate_subtitles", "finish")
    /\ create_assets(<<MediaAsset("subtitle", ".srt")>>)
    /\ update_job(j, "completed", ProgressDone, "None",
                  TranslateResult(j, next_asset_id), next_asset_id)
    /\ Goto(j, "done")
    /\ UNCHANGED <<requests, broker>> /\ NoResponse

translate_subtitles(j) ==
    \/ \E translation_raises \in BOOLEAN : translate_run(j, translation_raises)
    \/ translate_finish(j)

\* --------------------------------------------------- tasks.generate_shorts
ShortsMaxClips(opts) == OrDefault(Get(opts, "max_clips"), JInt(DefaultMaxClips))
ShortsMinDuration(opts) == OrDefault(Get(opts, "min_duration"), JInt(DefaultMinDuration))
ShortsMaxDuration(opts) == OrDefault(Get(opts, "max_duration"), JInt(DefaultMaxDuration))

\* cand.score = 1.0 - idx * 0.01, in hundredths
Scored(candidates) ==
    [i \in 1..Len(candidates) |-> [candidates[i] EXCEPT !.score = 100 - (i - 1)]]

\* candidates[:max_clips]
Prefix(s, n) ==
    IF n >= 0 THEN SubSeq(s, 1, Min(n, Len(s))) ELSE SubSeq(s, 1, Max(0, Len(s) + n))

ShortsSelected(opts, duration) ==
    LET max_clips == NumberOf(ShortsMaxClips(opts))
        candidates == Scored(equal_splits(duration, NumberOf(ShortsMaxDuration(opts))))
        selected == select_top(candidates, max_clips, NumberOf(ShortsMinDuration(opts)),
                               NumberOf(ShortsMaxDuration(opts)), 0)
    IN IF selected = <<>> THEN Prefix(candidates, max_clips) ELSE selected

shorts_fetch(j) ==
    /\ Running(j, "tasks.generate_shorts", "fetch")
    /\ IF \/ RaisesValueError(ShortsMaxClips(Args(j).opts))
          \/ RaisesValueError(ShortsMinDuration(Args(j).opts))
          \/ RaisesValueError(ShortsMaxDuration(Args(j).opts))
         THEN task_raise(j)
         ELSE IF ~FileExists(Args(j).asset_id)
           THEN task_fail(j, "Video asset file missing")
           ELSE /\ tasks' = [tasks EXCEPT ![j].pc = "clip",
                               ![j].selected = ShortsSelected(Args(j).opts, VideoDuration)]
                /\ UNCHANGED <<jobs, assets, next_asset_id, requests, broker>> /\ NoResponse

ClipProgress(idx, n) == ProgressStarted + (idx * ClipProgressSpan) \div Max(1, n)

\* top of the loop body: update_job(job_id, progress=0.1 + idx / len * 0.8)
shorts_clip(j) ==
    /\ Running(j, "tasks.generate_shorts", "clip")
    /\ IF tasks[j].idx < Len(tasks[j].selected)
         THEN /\ update_job(j, "None", ClipProgress(tasks[j].idx, Len(tasks[j].selected)),
                            "None", EmptyDict, NoId)
              /\ Goto(j, "cut")
              /\ UNCHANGED <<assets, next_asset_id, requests, broker>> /\ NoResponse
         ELSE task_goto(j, "finish")

Clip(seg, asset_id, thumb_id, subtitle_id) ==
    [asset_id |-> asset_id, start |-> seg.start, end |-> seg.end, score |-> seg.score,
     uri |-> asset_id, subtitle_uri |-> subtitle_id, thumbnail_uri |-> thumb_id]

\* cut_clip, then the clip, thumbnail and optional subtitle assets
shorts_cut(j, cut_raises) ==
    /\ Running(j, "tasks.generate_shorts", "cut")
    /\ IF cut_raises
         THEN task_fail(j, "Failed to cut clip")
         ELSE LET use_subtitles == Truthy(Get(Args(j).opts, "use_subtitles"))
                  seg == tasks[j].selected[tasks[j].idx + 1]
                  new == <<MediaAsset("video", ".mp4"), MediaAsset("image", ".png")>>
                           \o (IF use_subtitles THEN <<MediaAsset("subtitle", ".vtt")>> ELSE <<>>)
                  clip == Clip(seg, next_asset_id, next_asset_id + 1,
                               IF use_subtitles THEN next_asset_id + 2 ELSE NoId)
              IN /\ create_assets(new)
                 /\ tasks' = [tasks EXCEPT ![j].pc = "clip", ![j].idx = @ + 1,
                                           ![j].clips = Append(@, clip)]
                 /\ UNCHANGED <<jobs, requests, broker>> /\ NoResponse

\* the manifest asset, then update_job(status=completed, payload={clip_assets, **opts})
shorts_finish(j) ==
    /\ Running(j, "tasks.generate_shorts", "finish")
    /\ create_assets(<<MediaAsset("shorts_manifest", ".json")>>)
    /\ update_job(j, "completed", ProgressDone, "None",
                  Merge([clip_assets |-> tasks[j].clips], Args(j).opts), next_asset_id)
    /\ Goto(j, "done")
    /\ UNCHANGED <<requests, broker>> /\ NoResponse

generate_shorts(j) ==
    \/ shorts_fetch(j)
    \/ shorts_clip(j)
    \/ \E cut_raises \in BOOLEAN : shorts_cut(j, cut_raises)
    \/ shorts_finish(j)

\* -------------------------------------------------------------------- Init
\* nothing uploaded, no request counted, no file under tmp, no call observed
NoCall == [fn |-> "none"]
NoUpload == [pc |-> "none"]
\* os.environ with none of the variables the program reads
NoEnviron == [name \in {} |-> ""]

OthersIdle ==
    /\ environ = NoEnviron
    /\ now = 0
    /\ rate_limiter = [limit |-> 1, window_seconds |-> 1, hits |-> [key \in {} |-> <<>>]]
    /\ admitted = <<>>
    /\ tmp_files = [f \in {} |-> 0]
    /\ upload = NoUpload
    /\ call = NoCall

Init ==
    /\ jobs = [j \in {} |-> NoId]
    /\ assets = (1 :> MediaAsset("video", ".mp4")) @@ (2 :> MediaAsset("subtitle", ".srt"))
    /\ next_asset_id = 3
    /\ requests = [j \in {} |-> NoId]
    /\ broker = [j \in {} |-> NoId]
    /\ tasks = [j \in {} |-> NoId]
    /\ response = [op |-> "none", job |-> NoId, code |-> "none"]
    /\ OthersIdle

\* the requests the clients send
CaptionRequests ==
    {<<1, o>> : o \in CaptionOptions}
TranslateRequests ==
    {<<2, "es">>, <<MissingAssetId, "es">>}
ShortsRequests ==
    {<<1, 1, [use_subtitles |-> JInt(1)]>>, <<1, 1, [max_clips |-> JStr("abc")]>>}

\* the requests a specification admits: none once its job ids are used up
Admitted(reqs, ids) == IF NextJobId \in ids THEN reqs ELSE {}

Next ==
    \/ \E r \in Admitted(CaptionRequests, JobIds) : create_caption_job(r[1], r[2])
    \/ \E r \in Admitted(TranslateRequests, JobIds) :
          create_translate_job(r[1], r[2], EmptyDict)
    \/ \E r \in Admitted(ShortsRequests, JobIds) :
          create_shorts_job(r[1], r[2], DefaultMinDuration, DefaultMaxDuration, r[3])
    \/ \E j \in JobIds : enqueue_job_ok(j)
    \/ \E j \in JobIds : enqueue_job_fail(j)
    \/ \E j \in JobIds : save_task_id(j)
    \/ \E j \in JobIds : cancel_job(j)
    \/ \E j \in JobIds : deliver(j)
    \/ \E j \in JobIds : redeliver(j)
    \/ \E j \in JobIds : task_start(j)
    \/ \E j \in JobIds : generate_captions(j)
    \/ \E j \in JobIds : translate_subtitles(j)
    \/ \E j \in JobIds : generate_shorts(j)

Spec == Init /\ [][Next]_vars

\* request handlers run to completion: a pending send_task returns or raises,
\* and the commit that follows a successful send_task is made
FairSpec ==
    /\ Spec
    /\ WF_vars(\E j \in JobIds : enqueue_job_ok(j) \/ enqueue_job_fail(j))
    /\ WF_vars(\E j \in JobIds : save_task_id(j))

\* ------------------------------------------------------------ API: delete
\* _coerce_uuid: the id a stored value denotes, None when it denotes none
coerce_uuid(value) == IF value \in Nat /\ value # NoId THEN value ELSE NoId

\* payload.get("clip_assets") when it is a list, otherwise no entry
ClipAssets(payload) ==
    IF "clip_assets" \in DOMAIN payload THEN payload["clip_assets"] ELSE <<>>

\* item.get(key)
ItemGet(item, key) == IF key \in DOMAIN item THEN item[key] ELSE NoId

\* _collect_job_output_asset_ids: output_asset_id and, per clip_assets entry,
\* the ids under asset_id, thumbnail_asset_id and subtitle_asset_id
collect_job_output_asset_ids(job) ==
    LET clip_assets == ClipAssets(job.payload)
        found == {coerce_uuid(ItemGet(clip_assets[i], key)) :
                    i \in DOMAIN clip_assets,
                    key \in {"asset_id", "thumbnail_asset_id", "subtitle_asset_id"}}
    IN ({job.output_asset_id} \cup found) \ {NoId}

\* _asset_is_referenced: some Job has the asset as its input or its output
asset_is_referenced(rows, asset_id) ==
    \E k \in DOMAIN rows :
       rows[k].input_asset_id = asset_id \/ rows[k].output_asset_id = asset_id

Without(f, gone) == [x \in (DOMAIN f) \ gone |-> f[x]]

\* _delete_asset_if_unreferenced over the sorted ids: the asset rows and files
\* left once every collected asset that exists and is unreferenced is removed
delete_assets_if_unreferenced(rows, asset_ids) ==
    Without(assets, {a \in asset_ids \cap DOMAIN assets : ~asset_is_referenced(rows, a)})

\* variant: the job is deleted whatever its status
delete_job_any_status(j, delete_assets) ==
    /\ IF j \notin DOMAIN jobs
         THEN Respond("delete_job", j, "NOT_FOUND") /\ UNCHANGED <<jobs, assets>>
         ELSE LET derived == IF delete_assets
                               THEN collect_job_output_asset_ids(jobs[j]) ELSE {}
              IN /\ jobs' = Without(jobs, {j})
                 /\ assets' = delete_assets_if_unreferenced(jobs', derived)
                 /\ Respond("delete_job", j, "NO_CONTENT")
    /\ UNCHANGED <<next_asset_id, requests, broker, tasks>>

\* DELETE /jobs/{job_id}
delete_job(j, delete_assets) ==
    /\ IF j \notin DOMAIN jobs
         THEN Respond("delete_job", j, "NOT_FOUND") /\ UNCHANGED <<jobs, assets>>
         ELSE IF jobs[j].status \notin {"completed", "failed", "cancelled"}
           THEN Respond("delete_job", j, "CONFLICT") /\ UNCHANGED <<jobs, assets>>
           ELSE LET derived == IF delete_assets
                                 THEN collect_job_output_asset_ids(jobs[j]) ELSE {}
                IN /\ jobs' = Without(jobs, {j})
                   /\ assets' = delete_assets_if_unreferenced(jobs', derived)
                   /\ Respond("delete_job", j, "NO_CONTENT")
    /\ UNCHANGED <<next_asset_id, requests, broker, tasks>>

\* DELETE /assets/{asset_id}; the response names the asset
delete_asset(asset_id) ==
    /\ IF asset_id \notin DOMAIN assets
         THEN Respond("delete_asset", asset_id, "NOT_FOUND") /\ UNCHANGED assets
         ELSE IF asset_is_referenced(jobs, asset_id)
           THEN Respond("delete_asset", asset_id, "CONFLICT") /\ UNCHANGED assets
           ELSE /\ assets' = Without(assets, {asset_id})
                /\ Respond("delete_asset", asset_id, "NO_CONTENT")
    /\ UNCHANGED <<jobs, next_asset_id, requests, broker, tasks>>

\* ----------------------------------------------- the store under deletion
MaxStoreJobs == 2

StoreJobIds == 1..MaxStoreJobs

VideoAssets == {a \in DOMAIN assets : assets[a].kind = "video"}

\* a captions request on a video asset, or one whose free-form options list a clip
StoreCaptionRequests ==
    {<<a, EmptyDict>> : a \in VideoAssets}
      \cup {<<1, [clip_assets |-> <<[asset_id |-> a]>>]>> : a \in VideoAssets \ {1}}

StoreShortsRequests == {<<1, 1, [use_subtitles |-> JInt(1)]>>}

StoreNext ==
    \/ \E r \in Admitted(StoreCaptionRequests, StoreJobIds) : create_caption_job(r[1], r[2])
    \/ \E r \in Admitted(StoreShortsRequests, StoreJobIds) :
          create_shorts_job(r[1], r[2], DefaultMinDuration, DefaultMaxDuration, r[3])
    \/ \E j \in StoreJobIds : enqueue_job_ok(j)
    \/ \E j \in StoreJobIds : deliver(j)
    \/ \E j \in StoreJobIds : task_start(j)
    \/ \E j \in StoreJobIds : generate_shorts(j)
    \/ \E j \in StoreJobIds, delete_assets \in BOOLEAN : delete_job(j, delete_assets)
    \/ \E a \in VideoAssets : delete_asset(a)

StoreSpec == Init /\ [][StoreNext]_vars

\* ------------------------------------------------- API: upload and cleanup
MaxUploadBytes == 3
MaxUploads == 2
MaxTicks == 3

\* file.read(1024 * 1024), in the unit the uploads are measured in
ReadSize == 2
\* start_cleanup_loop(..., ttl_hours=24); the clock advances in half days
CleanupTtlHours == 24
ClockStep == 12

\* time passes
tick(step) ==
    /\ now < MaxTicks * step
    /\ now' = now + step
    /\ UNCHANGED <<job_vars, environ, rate_limiter, admitted, tmp_files, upload, call>>

\* the file of an asset row; local uris name files under tmp
WithoutFile(rows, gone) ==
    [a \in DOMAIN rows |-> IF a \in gone THEN [rows[a] EXCEPT !.file = FALSE] ELSE rows[a]]

\* upload_asset up to the first read: max_bytes is fixed and tmp_path is opened
upload_open(kind, size, max_upload_bytes) ==
    /\ upload.pc # "reading"
    /\ next_asset_id <= MaxUploads
    /\ upload' = [pc |-> "reading", kind |-> kind, size |-> size, total |-> 0,
                  max_bytes |-> Max(0, max_upload_bytes), filename |-> next_asset_id]
    /\ tmp_files' = (next_asset_id :> now) @@ tmp_files
    /\ response' = [op |-> "none", job |-> NoId, code |-> "none"]
    /\ UNCHANGED <<jobs, assets, next_asset_id, requests, broker, tasks,
                   environ, now, rate_limiter, admitted, call>>

\* len(chunk) of the next read: a full read, or what is left of the body
NextChunk(u) == Min(ReadSize, u.size - u.total)

\* variant: an upload of exactly max_bytes is refused as well
upload_read_inclusive ==
    /\ upload.pc = "reading"
    /\ NextChunk(upload) > 0
    /\ LET total == upload.total + NextChunk(upload)
       IN IF upload.max_bytes # 0 /\ total >= upload.max_bytes
            THEN /\ upload' = [upload EXCEPT !.pc = "rejected", !.total = total]
                 /\ tmp_files' = Without(tmp_files, {upload.filename})
                 /\ response' = [op |-> "upload", job |-> NoId, code |-> "CONTENT_TOO_LARGE"]
            ELSE /\ upload' = [upload EXCEPT !.total = total]
                 /\ tmp_files' = IF upload.filename \in DOMAIN tmp_files
                                    THEN (upload.filename :> now) @@ tmp_files
                                    ELSE tmp_files
                 /\ response' = [op |-> "none", job |-> NoId, code |-> "none"]
    /\ UNCHANGED <<jobs, assets, next_asset_id, requests, broker, tasks,
                   environ, now, rate_limiter, admitted, call>>

\* one turn of the read loop with a non-empty chunk; the refusal is the 413
\* response, and a write to a file that was unlinked meanwhile leaves no file
upload_read ==
    /\ upload.pc = "reading"
    /\ NextChunk(upload) > 0
    /\ LET total == upload.total + NextChunk(upload)
       IN IF upload.max_bytes # 0 /\ total > upload.max_bytes
            THEN /\ upload' = [upload EXCEPT !.pc = "rejected", !.total = total]
                 /\ tmp_files' = Without(tmp_files, {upload.filename})
                 /\ response' = [op |-> "upload", job |-> NoId, code |-> "CONTENT_TOO_LARGE"]
            ELSE /\ upload' = [upload EXCEPT !.total = total]
                 /\ tmp_files' = IF upload.filename \in DOMAIN tmp_files
                                    THEN (upload.filename :> now) @@ tmp_files
                                    ELSE tmp_files
                 /\ response' = [op |-> "none", job |-> NoId, code |-> "none"]
    /\ UNCHANGED <<jobs, assets, next_asset_id, requests, broker, tasks,
                   environ, now, rate_limiter, admitted, call>>

\* the empty read ends the loop: storage.write_file, then the MediaAsset row
upload_commit ==
    /\ upload.pc = "reading"
    /\ NextChunk(upload) = 0
    /\ upload' = [upload EXCEPT !.pc = "stored"]
    /\ assets' = AssetsWith(assets, next_asset_id,
                            <<[MediaAsset(upload.kind, "") EXCEPT
                                 !.file = upload.filename \in DOMAIN tmp_files]>>)
    /\ next_asset_id' = next_asset_id + 1
    /\ response' = [op |-> "upload", job |-> next_asset_id, code |-> "CREATED"]
    /\ UNCHANGED <<jobs, requests, broker, tasks,
                   environ, now, rate_limiter, admitted, tmp_files, call>>

upload_asset ==
    \/ \E kind \in {"video", "subtitle"}, size \in 0..(MaxUploadBytes + 1),
          max_upload_bytes \in {0 - 1, 0, MaxUploadBytes} :
          upload_open(kind, size, max_upload_bytes)
    \/ upload_read
    \/ upload_commit

\* the files _remove_old_files unlinks: entries with mtime < now - older_than
OldFiles(older_than) == {f \in DOMAIN tmp_files : tmp_files[f] < now - older_than}

\* one turn of the cleanup loop
remove_old_files ==
    /\ OldFiles(CleanupTtlHours) # {}
    /\ tmp_files' = Without(tmp_files, OldFiles(CleanupTtlHours))
    /\ assets' = WithoutFile(assets, OldFiles(CleanupTtlHours))
    /\ response' = [op |-> "none", job |-> NoId, code |-> "none"]
    /\ UNCHANGED <<jobs, next_asset_id, requests, broker, tasks,
                   environ, now, rate_limiter, admitted, upload, call>>

UploadInit ==
    /\ jobs = [j \in {} |-> NoId]
    /\ assets = [a \in {} |-> NoId]
    /\ next_asset_id = 1
    /\ requests = [j \in {} |-> NoId]
    /\ broker = [j \in {} |-> NoId]
    /\ tasks = [j \in {} |-> NoId]
    /\ response = [op |-> "none", job |-> NoId, code |-> "none"]
    /\ OthersIdle

UploadNext ==
    \/ tick(ClockStep)
    \/ upload_asset
    \/ remove_old_files

UploadSpec == UploadInit /\ [][UploadNext]_vars

\* ------------------------------------------------------------ rate limiter
MaxLimit == 2
MaxWindow == 2

ClientKeys == {"10.0.0.1", "anonymous"}

\* RateLimiter.__init__
RateLimiter(limit, window_seconds) ==
    [limit |-> Max(1, limit), window_seconds |-> Max(1, window_seconds),
     hits |-> [key \in {} |-> <<>>]]

\* self._hits.setdefault(key, deque()), before the insertion
Bucket(hits, key) == IF key \in DOMAIN hits THEN hits[key] ELSE <<>>

\* while bucket and bucket[0] < window_start: bucket.popleft()
RECURSIVE PopOld(_, _)
PopOld(bucket, window_start) ==
    IF bucket # <<>> /\ Head(bucket) < window_start
      THEN PopOld(Tail(bucket), window_start)
      ELSE bucket

\* variant: the bucket holds one request more than the limit
allow_one_more(key, result) ==
    LET window_start == now - rate_limiter.window_seconds
        bucket == PopOld(Bucket(rate_limiter.hits, key), window_start)
    IN IF Len(bucket) > rate_limiter.limit
         THEN /\ result = FALSE
              /\ rate_limiter' = [rate_limiter EXCEPT !.hits = (key :> bucket) @@ @]
         ELSE /\ result = TRUE
              /\ rate_limiter' = [rate_limiter EXCEPT
                                    !.hits = (key :> Append(bucket, now)) @@ @]

\* RateLimiter.allow(key) returns result
allow(key, result) ==
    LET window_start == now - rate_limiter.window_seconds
        bucket == PopOld(Bucket(rate_limiter.hits, key), window_start)
    IN IF Len(bucket) >= rate_limiter.limit
         THEN /\ result = FALSE
              /\ rate_limiter' = [rate_limiter EXCEPT !.hits = (key :> bucket) @@ @]
         ELSE /\ result = TRUE
              /\ rate_limiter' = [rate_limiter EXCEPT
                                    !.hits = (key :> Append(bucket, now)) @@ @]

\* the dependency of the rate-limited routes; admitted records the requests
\* that were let through, per client
enforce_rate_limit(client_ip) ==
    \E result \in BOOLEAN :
       /\ allow(client_ip, result)
       /\ call' = [fn |-> "allow", key |-> client_ip, result |-> result]
       /\ response' = [op |-> "enforce_rate_limit", job |-> NoId,
                       code |-> IF result THEN "none" ELSE "RATE_LIMITED"]
       /\ admitted' = IF result
                        THEN (client_ip :> Append(Bucket(admitted, client_ip), now))
                                @@ admitted
                        ELSE admitted
       /\ UNCHANGED <<jobs, assets, next_asset_id, requests, broker, tasks,
                      environ, now, tmp_files, upload>>

LimiterInit ==
    /\ jobs = [j \in {} |-> NoId]
    /\ assets = [a \in {} |-> NoId]
    /\ next_asset_id = 1
    /\ requests = [j \in {} |-> NoId]
    /\ broker = [j \in {} |-> NoId]
    /\ tasks = [j \in {} |-> NoId]
    /\ response = [op |-> "none", job |-> NoId, code |-> "none"]
    /\ environ = NoEnviron
    /\ now = 0
    /\ \E limit \in 0..MaxLimit, window_seconds \in 0..MaxWindow :
          rate_limiter = RateLimiter(limit, window_seconds)
    /\ admitted = [key \in {} |-> <<>>]
    /\ tmp_files = [f \in {} |-> 0]
    /\ upload = NoUpload
    /\ call = NoCall

LimiterNext ==
    \/ tick(1)
    \/ \E client_ip \in ClientKeys : enforce_rate_limit(client_ip)

LimiterSpec == LimiterInit /\ [][LimiterNext]_vars

\* ------------------------------------------------ select_top as a library
MaxCandidates == 3
MaxSegments == 2

\* the candidates a caller may pass: overlapping, nested and adjacent spans,
\* a zero and a negative score, and an empty span
CandidatePool ==
    { SegmentCandidate(0, 2, 2), SegmentCandidate(1, 3, 3), SegmentCandidate(2, 4, 2),
      SegmentCandidate(2, 3, 1), SegmentCandidate(0, 4, 3), SegmentCandidate(3, 4, 1),
      SegmentCandidate(0, 1, 0), SegmentCandidate(1, 2, 0 - 1), SegmentCandidate(2, 2, 5) }

MinDurations == {0, 2}
MaxDurations == {2, 4}
MinGaps == {0 - 2, 0, 1}

\* the caller builds its candidate list
add_candidate(c) ==
    /\ call.fn = "select_top"
    /\ ~call.returned
    /\ Len(call.candidates) < MaxCandidates
    /\ call' = [call EXCEPT !.candidates = Append(@, c)]
    /\ UNCHANGED <<job_vars, environ, now, rate_limiter, admitted, tmp_files, upload>>

\* the call and the list it returns
call_select_top(max_segments, min_duration, max_duration, min_gap) ==
    /\ call.fn = "select_top"
    /\ ~call.returned
    /\ call' = [call EXCEPT
                  !.max_segments = max_segments, !.min_duration = min_duration,
                  !.max_duration = max_duration, !.min_gap = min_gap,
                  !.returned = TRUE,
                  !.result = select_top(call.candidates, max_segments, min_duration,
                                        max_duration, min_gap)]
    /\ UNCHANGED <<job_vars, environ, now, rate_limiter, admitted, tmp_files, upload>>

SelectInit ==
    /\ jobs = [j \in {} |-> NoId]
    /\ assets = [a \in {} |-> NoId]
    /\ next_asset_id = 1
    /\ requests = [j \in {} |-> NoId]
    /\ broker = [j \in {} |-> NoId]
    /\ tasks = [j \in {} |-> NoId]
    /\ response = [op |-> "none", job |-> NoId, code |-> "none"]
    /\ environ = NoEnviron
    /\ now = 0
    /\ rate_limiter = RateLimiter(1, 1)
    /\ admitted = <<>>
    /\ tmp_files = [f \in {} |-> 0]
    /\ upload = NoUpload
    /\ call = [fn |-> "select_top", candidates |-> <<>>, max_segments |-> 0,
               min_duration |-> 0, max_duration |-> 0, min_gap |-> 0,
               returned |-> FALSE, result |-> <<>>]

SelectNext ==
    \/ \E c \in CandidatePool : add_candidate(c)
    \/ \E max_segments \in 0..MaxSegments, min_duration \in MinDurations,
          max_duration \in MaxDurations, min_gap \in MinGaps :
          call_select_top(max_segments, min_duration, max_duration, min_gap)

SelectSpec == SelectInit /\ [][SelectNext]_vars

\* ------------------------------------------- media_core.subtitles.builder
MaxWords == 3

\* GroupingConfig defaults; times are in tenths of a second
DefaultMaxWordsPerLine == 12
DefaultLineDuration == 60
DefaultMaxGap == 6

\* a text is the sequence of its characters
Word(text, start, end) == [text |-> text, start |-> start, end |-> end]

\* a line as group_words builds it: speaker is None
SubtitleLine(start, end, words) ==
    [start |-> start, end |-> end, words |-> words, speaker |-> "None"]

GroupingConfig(max_chars_per_line, max_words_per_line, max_duration, max_gap) ==
    [max_chars_per_line |-> max_chars_per_line, max_words_per_line |-> max_words_per_line,
     max_duration |-> max_duration, max_gap |-> max_gap]

\* " ".join(w.text for w in words)
RECURSIVE Join(_)
Join(words) ==
    IF words = <<>> THEN <<>>
    ELSE IF Len(words) = 1 THEN Head(words).text
    ELSE Head(words).text \o <<" ">> \o Join(Tail(words))

\* str.strip()
RECURSIVE Strip(_)
Strip(text) ==
    IF text = <<>> THEN <<>>
    ELSE IF Head(text) = " " THEN Strip(Tail(text))
    ELSE IF text[Len(text)] = " " THEN Strip(SubSeq(text, 1, Len(text) - 1))
    ELSE text

\* SubtitleLine.text()
LineText(line) == Strip(Join(line.words))

\* the loop state of group_words before any word
GroupStart(words) ==
    [lines |-> <<>>, current_words |-> <<>>,
     current_start |-> words[1].start, last_end |-> words[1].end]

\* flush()
Flush(st) ==
    [st EXCEPT !.lines = IF st.current_words # <<>>
                           THEN Append(@, SubtitleLine(st.current_start, st.last_end,
                                                       st.current_words))
                           ELSE @,
               !.current_words = <<>>]

\* variant: a pause between two words never ends the line
GroupStepIgnoringGap(st, w, config) ==
    IF st.current_words = <<>>
      THEN [st EXCEPT !.current_start = w.start, !.last_end = w.end,
                      !.current_words = <<w>>]
      ELSE LET candidate_text == Join(Append(st.current_words, w))
               too_many_chars == Len(candidate_text) > config.max_chars_per_line
               too_many_words == Len(st.current_words) + 1 > config.max_words_per_line
               too_long == (w.end - st.current_start) > config.max_duration
           IN IF too_many_chars \/ too_many_words \/ too_long
                THEN [Flush(st) EXCEPT !.current_start = w.start, !.last_end = w.end,
                                       !.current_words = <<w>>]
                ELSE [st EXCEPT !.current_words = Append(@, w), !.last_end = w.end]

\* one turn of the loop over the words
GroupStep(st, w, config) ==
    IF st.current_words = <<>>
      THEN [st EXCEPT !.current_start = w.start, !.last_end = w.end,
                      !.current_words = <<w>>]
      ELSE LET candidate_text == Join(Append(st.current_words, w))
               too_many_chars == Len(candidate_text) > config.max_chars_per_line
               too_many_words == Len(st.current_words) + 1 > config.max_words_per_line
               too_long == (w.end - st.current_start) > config.max_duration
               too_far == (w.start - st.last_end) > config.max_gap
           IN IF too_many_chars \/ too_many_words \/ too_long \/ too_far
                THEN [Flush(st) EXCEPT !.current_start = w.start, !.last_end = w.end,
                                       !.current_words = <<w>>]
                ELSE [st EXCEPT !.current_words = Append(@, w), !.last_end = w.end]

RECURSIVE GroupLoop(_, _, _)
GroupLoop(st, words, config) ==
    IF words = <<>> THEN st
    ELSE GroupLoop(GroupStep(st, Head(words), config), Tail(words), config)

group_words(words, config) ==
    IF words = <<>> THEN <<>>
    ELSE Flush(GroupLoop(GroupStart(words), words, config)).lines

\* the words a transcription may hold: one starts with a space, one lasts
\* longer than any max_duration
WordPool ==
    { Word(<<"h", "e", "l", "l", "o">>, 0, 5), Word(<<"w", "o", "r", "l", "d">>, 6, 11),
      Word(<<" ", "i", "s">>, 12, 14), Word(<<"l", "o", "n", "g">>, 14, 80),
      Word(<<"s", "o">>, 30, 34) }

\* the configurations of the test, of the defaults and of an option below 1
GroupingConfigs ==
    { GroupingConfig(11, 2, 30, 7),
      GroupingConfig(DefaultMaxCharsPerLine, DefaultMaxWordsPerLine,
                     DefaultLineDuration, DefaultMaxGap),
      GroupingConfig(11, 0 - 1, 30, 7) }

\* the caller builds its word list
add_word(w) ==
    /\ call.fn = "group_words"
    /\ ~call.returned
    /\ Len(call.words) < MaxWords
    /\ call' = [call EXCEPT !.words = Append(@, w)]
    /\ UNCHANGED <<job_vars, environ, now, rate_limiter, admitted, tmp_files, upload>>

\* the call and the lines it returns
call_group_words(config) ==
    /\ call.fn = "group_words"
    /\ ~call.returned
    /\ call' = [call EXCEPT !.config = config, !.returned = TRUE,
                            !.result = group_words(call.words, config)]
    /\ UNCHANGED <<job_vars, environ, now, rate_limiter, admitted, tmp_files, upload>>

GroupInit ==
    /\ jobs = [j \in {} |-> NoId]
    /\ assets = [a \in {} |-> NoId]
    /\ next_asset_id = 1
    /\ requests = [j \in {} |-> NoId]
    /\ broker = [j \in {} |-> NoId]
    /\ tasks = [j \in {} |-> NoId]
    /\ response = [op |-> "none", job |-> NoId, code |-> "none"]
    /\ environ = NoEnviron
    /\ now = 0
    /\ rate_limiter = RateLimiter(1, 1)
    /\ admitted = <<>>
    /\ tmp_files = [f \in {} |-> 0]
    /\ upload = NoUpload
    /\ call = [fn |-> "group_words", words |-> <<>>,
               config |-> GroupingConfig(0, 0, 0, 0), returned |-> FALSE, result |-> <<>>]

GroupNext ==
    \/ \E w \in WordPool : add_word(w)
    \/ \E config \in GroupingConfigs : call_group_words(config)

GroupSpec == GroupInit /\ [][GroupNext]_vars

\* ------------------------------------------------------ media_core.diarize
MaxLines == 2
MaxSpeakerSegments == 2

SpeakerSegment(start, end, speaker) == [start |-> start, end |-> end, speaker |-> speaker]

\* max(0.0, min(line.end, seg.end) - max(line.start, seg.start))
Overlap(line, seg) == Max(0, Min(line.end, seg.end) - Max(line.start, seg.start))

\* the inner loop: best is (best_speaker, best_overlap) so far
RECURSIVE BestSpeaker(_, _, _)
BestSpeaker(line, segments_list, best) ==
    IF segments_list = <<>> THEN best.speaker
    ELSE LET seg == Head(segments_list)
         IN BestSpeaker(line, Tail(segments_list),
                        IF Overlap(line, seg) > best.overlap
                          THEN [speaker |-> seg.speaker, overlap |-> Overlap(line, seg)]
                          ELSE best)

assign_speakers_to_lines(lines, segments) ==
    IF segments = <<>>
      THEN [n \in DOMAIN lines |-> [lines[n] EXCEPT !.speaker = lines[n].speaker]]
      ELSE [n \in DOMAIN lines |->
              [lines[n] EXCEPT !.speaker =
                  BestSpeaker(lines[n], segments, [speaker |-> "None", overlap |-> 0])]]

\* lines as the caller may pass them: fresh from group_words, or labelled before
LinePool ==
    { SubtitleLine(0, 10, <<Word(<<"h", "i">>, 0, 10)>>),
      SubtitleLine(10, 20, <<Word(<<"y", "o">>, 10, 20)>>),
      [SubtitleLine(0, 10, <<Word(<<"h", "i">>, 0, 10)>>) EXCEPT !.speaker = "SPEAKER_09"],
      SubtitleLine(30, 31, <<>>) }

\* segments: two with the same span, one apart from every line
SegmentPool ==
    { SpeakerSegment(0, 14, "SPEAKER_01"), SpeakerSegment(14, 30, "SPEAKER_02"),
      SpeakerSegment(0, 14, "SPEAKER_03"), SpeakerSegment(40, 50, "SPEAKER_04") }

add_line(line) ==
    /\ call.fn = "assign_speakers_to_lines"
    /\ ~call.returned
    /\ Len(call.lines) < MaxLines
    /\ call' = [call EXCEPT !.lines = Append(@, line)]
    /\ UNCHANGED <<job_vars, environ, now, rate_limiter, admitted, tmp_files, upload>>

add_segment(seg) ==
    /\ call.fn = "assign_speakers_to_lines"
    /\ ~call.returned
    /\ Len(call.segments) < MaxSpeakerSegments
    /\ call' = [call EXCEPT !.segments = Append(@, seg)]
    /\ UNCHANGED <<job_vars, environ, now, rate_limiter, admitted, tmp_files, upload>>

call_assign_speakers_to_lines ==
    /\ call.fn = "assign_speakers_to_lines"
    /\ ~call.returned
    /\ call' = [call EXCEPT !.returned = TRUE,
                            !.result = assign_speakers_to_lines(call.lines, call.segments)]
    /\ UNCHANGED <<job_vars, environ, now, rate_limiter, admitted, tmp_files, upload>>

\* no job, asset, request, upload or rate-limited client: a library is called
LibraryIdle ==
    /\ jobs = [j \in {} |-> NoId]
    /\ assets = [a \in {} |-> NoId]
    /\ next_asset_id = 1
    /\ requests = [j \in {} |-> NoId]
    /\ broker = [j \in {} |-> NoId]
    /\ tasks = [j \in {} |-> NoId]
    /\ response = [op |-> "none", job |-> NoId, code |-> "none"]
    /\ environ = NoEnviron
    /\ now = 0
    /\ rate_limiter = RateLimiter(1, 1)
    /\ admitted = <<>>
    /\ tmp_files = [f \in {} |-> 0]
    /\ upload = NoUpload

AssignInit ==
    /\ LibraryIdle
    /\ call = [fn |-> "assign_speakers_to_lines", lines |-> <<>>, segments |-> <<>>,
               returned |-> FALSE, result |-> <<>>]

AssignNext ==
    \/ \E line \in LinePool : add_line(line)
    \/ \E seg \in SegmentPool : add_segment(seg)
    \/ call_assign_speakers_to_lines

AssignSpec == AssignInit /\ [][AssignNext]_vars

\* ------------------------------------------------------------ ASS karaoke
MaxKaraokeLines == 3

\* int(round(seconds * 100)) of a time given in milliseconds: round half to even
RoundCs(ms) ==
    LET q == ms \div 10
        r == ms % 10
    IN IF r < 5 THEN q
       ELSE IF r > 5 THEN q + 1
       ELSE IF q % 2 = 0 THEN q ELSE q + 1

\* re.findall(r"\S+", text.strip()): cur is the token being read
RECURSIVE Tokens(_, _)
Tokens(text, cur) ==
    IF text = <<>> THEN (IF cur = <<>> THEN <<>> ELSE <<cur>>)
    ELSE IF Head(text) = " "
      THEN (IF cur = <<>> THEN <<>> ELSE <<cur>>) \o Tokens(Tail(text), <<>>)
      ELSE Tokens(Tail(text), Append(cur, Head(text)))

tokenize_for_karaoke(text) == Tokens(Strip(text), <<>>)

RECURSIVE SumSeq(_)
SumSeq(s) == IF s = <<>> THEN 0 ELSE Head(s) + SumSeq(Tail(s))

\* sorted(range(len(tokens)), key=lambda i: weights[i], reverse=True): the
\* indices by falling weight, equal weights in index order
RECURSIVE InsertByWeight(_, _, _)
InsertByWeight(i, order, weights) ==
    IF order = <<>> THEN <<i>>
    ELSE IF weights[i] > weights[Head(order)] THEN <<i>> \o order
    ELSE <<Head(order)>> \o InsertByWeight(i, Tail(order), weights)

RECURSIVE OrderUpTo(_, _)
OrderUpTo(weights, n) ==
    IF n = 0 THEN <<>> ELSE InsertByWeight(n, OrderUpTo(weights, n - 1), weights)

\* while delta > 0: durations[order[i % len(order)]] += 1 (i counts from 0)
RECURSIVE AddRemaining(_, _, _, _)
AddRemaining(durations, order, delta, i) ==
    IF delta > 0
      THEN AddRemaining([durations EXCEPT ![order[(i % Len(order)) + 1]] = @ + 1],
                        order, delta - 1, i + 1)
      ELSE durations

\* while delta < 0 and any(d > 1 for d in durations): take one from a duration > 1
RECURSIVE RemoveExtra(_, _, _, _)
RemoveExtra(durations, order, delta, i) ==
    IF delta < 0 /\ \E k \in DOMAIN durations : durations[k] > 1
      THEN LET idx == order[(i % Len(order)) + 1]
           IN IF durations[idx] > 1
                THEN RemoveExtra([durations EXCEPT ![idx] = @ - 1], order, delta + 1, i + 1)
                ELSE RemoveExtra(durations, order, delta, i + 1)
      ELSE durations

allocate_karaoke_durations_cs(tokens, total_cs_in) ==
    LET n == Len(tokens)
        total_cs == IF total_cs_in <= 0 THEN n ELSE total_cs_in
        weights == [i \in 1..n |-> Max(1, Len(tokens[i]))]
        denom == IF SumSeq(weights) # 0 THEN SumSeq(weights) ELSE n
        durations == [i \in 1..n |-> Max(1, (total_cs * weights[i]) \div denom)]
        delta == total_cs - SumSeq(durations)
        order == OrderUpTo(weights, n)
    IN IF tokens = <<>> THEN <<>>
       ELSE IF total_cs < n THEN [i \in 1..n |-> 1]
       ELSE IF delta > 0 THEN AddRemaining(durations, order, delta, 0)
       ELSE IF delta < 0 THEN RemoveExtra(durations, order, delta, 0)
       ELSE durations

\* SubtitleLine.duration
LineDuration(line) == Max(0, line.end - line.start)

\* int(round(max(0.01, line.duration) * 100))
LineTotalCs(line) == RoundCs(Max(10, LineDuration(line)))

\* the D of the {\kD} tags _karaoke_text_for_line writes, in order
karaoke_durations_for_line(line) ==
    IF Len(line.words) > 1
      THEN LET Shown(w) == Strip(w.text) # <<>>
               shown == SelectSeq(line.words, Shown)
           IN [i \in DOMAIN shown |-> Max(1, RoundCs(Max(0, shown[i].end - shown[i].start)))]
      ELSE allocate_karaoke_durations_cs(tokenize_for_karaoke(LineText(line)),
                                         LineTotalCs(line))

\* to_ass_karaoke: the tags of each Dialogue event
to_ass_karaoke(lines) == [n \in DOMAIN lines |-> karaoke_durations_for_line(lines[n])]

\* lines with times in milliseconds: cues of one word holding several tokens
\* (long, shorter than its tokens, one long token among short ones) and lines
\* of two timed words, with and without a pause between them
KaraokeLinePool ==
    { SubtitleLine(0, 1000, <<Word(<<"h", "i", " ", "t", "h", "e", "r", "e">>, 0, 1000)>>),
      SubtitleLine(0, 20, <<Word(<<"a", " ", "b", " ", "c">>, 0, 20)>>),
      SubtitleLine(0, 30, <<Word(<<"a", " ", "b", "b", "b", "b", "b", "b", "b", "b", "b", "b",
                                   " ", "c">>, 0, 30)>>),
      SubtitleLine(0, 1100, <<Word(<<"h", "e", "l", "l", "o">>, 0, 500),
                              Word(<<"w", "o", "r", "l", "d">>, 600, 1100)>>),
      SubtitleLine(0, 1000, <<Word(<<"h", "e", "l", "l", "o">>, 0, 500),
                              Word(<<"w", "o", "r", "l", "d">>, 500, 1000)>>),
      SubtitleLine(0, 25, <<Word(<<"o", "h">>, 0, 25)>>) }

add_karaoke_line(line) ==
    /\ call.fn = "to_ass_karaoke"
    /\ ~call.returned
    /\ Len(call.lines) < MaxKaraokeLines
    /\ call' = [call EXCEPT !.lines = Append(@, line)]
    /\ UNCHANGED <<job_vars, environ, now, rate_limiter, admitted, tmp_files, upload>>

call_to_ass_karaoke ==
    /\ call.fn = "to_ass_karaoke"
    /\ ~call.returned
    /\ call' = [call EXCEPT !.returned = TRUE, !.result = to_ass_karaoke(call.lines)]
    /\ UNCHANGED <<job_vars, environ, now, rate_limiter, admitted, tmp_files, upload>>

KaraokeInit ==
    /\ LibraryIdle
    /\ call = [fn |-> "to_ass_karaoke", lines |-> <<>>, returned |-> FALSE, result |-> <<>>]

KaraokeNext ==
    \/ \E line \in KaraokeLinePool : add_karaoke_line(line)
    \/ call_to_ass_karaoke

KaraokeSpec == KaraokeInit /\ [][KaraokeNext]_vars

\* ------------------------------------------- captions jobs and offline mode
\* storage._truthy_env(name): the name itself first, then its REFRAME_ form
storage_truthy_env(name) ==
    Lowered[getenv(name, getenv("REFRAME_" \o name, ""))] \in {"1", "true", "yes", "on"}

\* storage._env(name).lower(): the REFRAME_ form first, then the name itself
storage_env_lower(name) == Lowered[getenv("REFRAME_" \o name, getenv(name, ""))]

\* get_storage: the class of the backend it returns, or the exception it raises
get_storage ==
    LET backend == IF storage_env_lower("STORAGE_BACKEND") # ""
                     THEN storage_env_lower("STORAGE_BACKEND") ELSE "local"
    IN IF storage_truthy_env("OFFLINE_MODE") /\ backend \notin {"local", "filesystem", "fs"}
         THEN "RuntimeError"
       ELSE IF backend \in {"local", "filesystem", "fs"} THEN "LocalStorageBackend"
       ELSE IF backend \in {"s3", "r2"} THEN "S3StorageBackend"
       ELSE "ValueError"

\* GET /system/status builds the storage; the environment never changes, so
\* the request is taken once, ahead of the job requests
call_get_storage ==
    /\ call = NoCall
    /\ DOMAIN requests = {}
    /\ call' = [fn |-> "get_storage", result |-> get_storage]
    /\ response' = [op |-> "none", job |-> NoId, code |-> "none"]
    /\ UNCHANGED <<jobs, assets, next_asset_id, requests, broker, tasks,
                   environ, now, rate_limiter, admitted, tmp_files, upload>>

\* os.environ built from the values given to three variables; "unset" leaves
\* the variable out
EnvironOf(values) == [name \in {n \in DOMAIN values : values[n] # "unset"} |-> values[name]]

\* no variable set, or a remote storage backend with each setting of the two
\* names of the offline flag
Environs ==
    {NoEnviron} \cup
    { EnvironOf([OFFLINE_MODE |-> o, REFRAME_OFFLINE_MODE |-> r,
                 REFRAME_STORAGE_BACKEND |-> "S3"]) :
        o \in {"unset", "1", "0"}, r \in {"unset", " On "} }

\* captions requests with speaker labels: a local backend that can raise with
\* speechbrain, and the remote openai_whisper with pyannote
BackendCaptionRequests ==
    {<<1, o>> : o \in { [backend |-> JStr("faster_whisper"), speaker_labels |-> JStr("true"),
                         diarization_backend |-> JStr("speechbrain")],
                        [backend |-> JStr("openai_whisper"), speaker_labels |-> JInt(1),
                         diarization_backend |-> JStr("pyannote")] }}

CaptionInit ==
    /\ jobs = [j \in {} |-> NoId]
    /\ assets = (1 :> MediaAsset("video", ".mp4"))
    /\ next_asset_id = 2
    /\ requests = [j \in {} |-> NoId]
    /\ broker = [j \in {} |-> NoId]
    /\ tasks = [j \in {} |-> NoId]
    /\ response = [op |-> "none", job |-> NoId, code |-> "none"]
    /\ environ \in Environs
    /\ now = 0
    /\ rate_limiter = RateLimiter(1, 1)
    /\ admitted = <<>>
    /\ tmp_files = [f \in {} |-> 0]
    /\ upload = NoUpload
    /\ call = NoCall

CaptionNext ==
    \/ \E r \in Admitted(BackendCaptionRequests, JobIds) : create_caption_job(r[1], r[2])
    \/ \E j \in JobIds : enqueue_job_ok(j)
    \/ \E j \in JobIds : save_task_id(j)
    \/ \E j \in JobIds : deliver(j)
    \/ \E j \in JobIds : task_start(j)
    \/ \E j \in JobIds : generate_captions(j)
    \/ call_get_storage

\* a task that was started runs on: the executor carries its pipeline to the end
CaptionSpec ==
    /\ CaptionInit /\ [][CaptionNext]_vars
    /\ WF_vars(\E j \in JobIds : generate_captions(j))

\* ------------------------------------------------ equal_splits as a library
MaxSplitDuration == 12
MaxClipLength == 8

call_equal_splits ==
    /\ call.fn = "equal_splits"
    /\ ~call.returned
    /\ call' = [call EXCEPT !.returned = TRUE,
                            !.result = equal_splits(call.duration, call.clip_length)]
    /\ UNCHANGED <<job_vars, environ, now, rate_limiter, admitted, tmp_files, upload>>

SplitInit ==
    /\ LibraryIdle
    /\ \E duration \in -1..MaxSplitDuration, clip_length \in -1..MaxClipLength :
          call = [fn |-> "equal_splits", duration |-> duration, clip_length |-> clip_length,
                  returned |-> FALSE, result |-> <<>>]

SplitNext == call_equal_splits

SplitSpec == SplitInit /\ [][SplitNext]_vars

\* ------------------------------------------------- update_job and payloads
MaxUpdates == 2

\* payloads with a nested object under "options" and a string under "status",
\* each key present or absent
NestedOptions == { [a |-> JInt(1)], [b |-> JInt(2)], [a |-> JInt(3), b |-> JInt(2)] }

StatusTexts == { JStr("captions_generated"), JStr("translated") }

Payloads ==
    {EmptyDict}
      \cup { [options |-> o] : o \in NestedOptions }
      \cup { [status |-> s] : s \in StatusTexts }
      \cup { [options |-> o, status |-> s] : o \in NestedOptions, s \in StatusTexts }

StoredPayload(j) == IF j \in DOMAIN jobs THEN jobs[j].payload ELSE EmptyDict

\* the worker calls update_job(job_id, status=..., payload=...); payload=None
\* and payload={} take the same branch
call_update_job(j, status, payload) ==
    /\ call.calls < MaxUpdates
    /\ update_job(j, status, NoProgress, "None", payload, NoId)
    /\ call' = [fn |-> "update_job", job |-> j, before |-> StoredPayload(j),
                payload |-> payload, calls |-> call.calls + 1]
    /\ UNCHANGED <<assets, next_asset_id, requests, broker, tasks, response,
                   environ, now, rate_limiter, admitted, tmp_files, upload>>

\* one job row with a stored payload; job 2 has no row
MergeInit ==
    /\ \E stored \in Payloads : jobs = (1 :> NewJob("captions", 1, stored))
    /\ assets = (1 :> MediaAsset("video", ".mp4"))
    /\ next_asset_id = 2
    /\ requests = [j \in {} |-> NoId]
    /\ broker = [j \in {} |-> NoId]
    /\ tasks = [j \in {} |-> NoId]
    /\ response = [op |-> "none", job |-> NoId, code |-> "none"]
    /\ environ = NoEnviron
    /\ now = 0
    /\ rate_limiter = RateLimiter(1, 1)
    /\ admitted = <<>>
    /\ tmp_files = [f \in {} |-> 0]
    /\ upload = NoUpload
    /\ call = [fn |-> "update_job", job |-> NoId, before |-> EmptyDict,
               payload |-> EmptyDict, calls |-> 0]

MergeNext ==
    \E j \in {1, 2}, status \in {"None", "running", "completed"}, payload \in Payloads :
        call_update_job(j, status, payload)

MergeSpec == MergeInit /\ [][MergeNext]_vars

\* ------------------------------------------------ _run_ffmpeg_with_retries
MaxRetryAttempts == 4
MaxBaseDelay == 2
DefaultRetryMaxAttempts == 3

RECURSIVE Pow2(_)
Pow2(n) == IF n = 0 THEN 1 ELSE 2 * Pow2(n - 1)

\* the payload written before a retry
RetryPayload(step, attempt, max_attempts) ==
    [retry_step |-> JStr(step), retry_attempt |-> JInt(attempt),
     retry_max_attempts |-> JInt(max_attempts)]

\* variant: the failure is propagated one attempt too late
attempt_once_more(fn_raises) ==
    LET n == Len(call.outcomes) + 1
    IN /\ call.fn = "run_ffmpeg_with_retries"
       /\ call.pc = "attempt"
       /\ IF ~fn_raises
            THEN /\ call' = [call EXCEPT !.outcomes = Append(@, "ok"), !.pc = "returned"]
                 /\ UNCHANGED jobs
            ELSE IF n > call.max_attempts
              THEN /\ call' = [call EXCEPT !.outcomes = Append(@, "failed"), !.pc = "raised"]
                   /\ UNCHANGED jobs
              ELSE /\ update_job(call.job_id, "None", NoProgress, "None",
                                 RetryPayload(call.step, n, call.max_attempts), NoId)
                   /\ call' = [call EXCEPT !.outcomes = Append(@, "failed"),
                                 !.slept = Append(@, call.base_delay_seconds * Pow2(n - 1))]
       /\ UNCHANGED <<assets, next_asset_id, requests, broker, tasks, response,
                      environ, now, rate_limiter, admitted, tmp_files, upload>>

\* one pass of the helper's loop: fn() is called; its result is returned, or
\* its failure is propagated after the last attempt, or the retry is written
\* to the job and the helper sleeps base_delay_seconds * 2^(n-1)
attempt(fn_raises) ==
    LET n == Len(call.outcomes) + 1
    IN /\ call.fn = "run_ffmpeg_with_retries"
       /\ call.pc = "attempt"
       /\ IF ~fn_raises
            THEN /\ call' = [call EXCEPT !.outcomes = Append(@, "ok"), !.pc = "returned"]
                 /\ UNCHANGED jobs
            ELSE IF n >= call.max_attempts
              THEN /\ call' = [call EXCEPT !.outcomes = Append(@, "failed"), !.pc = "raised"]
                   /\ UNCHANGED jobs
              ELSE /\ update_job(call.job_id, "None", NoProgress, "None",
                                 RetryPayload(call.step, n, call.max_attempts), NoId)
                   /\ call' = [call EXCEPT !.outcomes = Append(@, "failed"),
                                 !.slept = Append(@, call.base_delay_seconds * Pow2(n - 1))]
       /\ UNCHANGED <<assets, next_asset_id, requests, broker, tasks, response,
                      environ, now, rate_limiter, admitted, tmp_files, upload>>

\* the helper is entered for a step of a shorts job, with the configured
\* max_attempts (DefaultRetryMaxAttempts when none is configured) and base delay
RetryInit ==
    /\ jobs = (1 :> NewJob("shorts", 1, [max_clips |-> JInt(2)]))
    /\ assets = (1 :> MediaAsset("video", ".mp4"))
    /\ next_asset_id = 2
    /\ requests = [j \in {} |-> NoId]
    /\ broker = [j \in {} |-> NoId]
    /\ tasks = [j \in {} |-> NoId]
    /\ response = [op |-> "none", job |-> NoId, code |-> "none"]
    /\ environ = NoEnviron
    /\ now = 0
    /\ rate_limiter = RateLimiter(1, 1)
    /\ admitted = <<>>
    /\ tmp_files = [f \in {} |-> 0]
    /\ upload = NoUpload
    /\ \E max_attempts \in (1..MaxRetryAttempts) \cup {DefaultRetryMaxAttempts},
          base_delay_seconds \in 0..MaxBaseDelay,
          step \in {"cut_clip:1", "cut_clip:2", "probe"} :
          call = [fn |-> "run_ffmpeg_with_retries", job_id |-> 1, step |-> step,
                  max_attempts |-> max_attempts, base_delay_seconds |-> base_delay_seconds,
                  outcomes |-> <<>>, slept |-> <<>>, pc |-> "attempt"]

RetryNext == \E fn_raises \in BOOLEAN : attempt(fn_raises)

RetrySpec == RetryInit /\ [][RetryNext]_vars

\* ---------------------------------------------- shorts jobs and max_clips
\* max_clips is a plain int of ShortsJobRequest: every integer is accepted
MaxClipsValues == {-1, 0, 1, 2, 3}

ClipsShortsRequests == {<<1, max_clips, EmptyDict>> : max_clips \in MaxClipsValues}

ClipsInit ==
    /\ jobs = [j \in {} |-> NoId]
    /\ assets = (1 :> MediaAsset("video", ".mp4"))
    /\ next_asset_id = 2
    /\ requests = [j \in {} |-> NoId]
    /\ broker = [j \in {} |-> NoId]
    /\ tasks = [j \in {} |-> NoId]
    /\ response = [op |-> "none", job |-> NoId, code |-> "none"]
    /\ environ = NoEnviron
    /\ now = 0
    /\ rate_limiter = RateLimiter(1, 1)
    /\ admitted = <<>>
    /\ tmp_files = [f \in {} |-> 0]
    /\ upload = NoUpload
    /\ call = NoCall

ClipsNext ==
    \/ \E r \in Admitted(ClipsShortsRequests, JobIds) :
          create_shorts_job(r[1], r[2], DefaultMinDuration, DefaultMaxDuration, r[3])
    \/ \E j \in JobIds : enqueue_job_ok(j)
    \/ \E j \in JobIds : save_task_id(j)
    \/ \E j \in JobIds : deliver(j)
    \/ \E j \in JobIds : task_start(j)
    \/ \E j \in JobIds : generate_shorts(j)

ClipsSpec == ClipsInit /\ [][ClipsNext]_vars

\* ------------------------------------------------------------------ claims
Rows == DOMAIN jobs
Kept == (DOMAIN jobs) \cap (DOMAIN jobs')

\* C1: once a job's status is completed, failed or cancelled, no step changes
\* its status or its error.
C1_TerminalIsSink ==
    [][\A j \in Kept :
         jobs[j].status \in TerminalStatuses =>
           /\ jobs'[j].status = jobs[j].status
           /\ jobs'[j].error = jobs[j].error]_vars

\* C2: a cancel request answers OK and sets status=cancelled exactly when the
\* job exists and is queued or running; on a completed, failed or cancelled job
\* it answers CONFLICT, on an absent job NOT_FOUND, and in both error cases the
\* job table is left as it was. A successful cancel touches no other job.
C2_CancelContract ==
    [][\A j \in JobIds :
         cancel_job(j) =>
           /\ response'.op = "cancel" /\ response'.job = j
           /\ response'.code = "OK" <=> (j \in Rows /\ jobs[j].status \in {"queued", "running"})
           /\ response'.code = "OK" =>
                /\ jobs'[j].status = "cancelled"
                /\ \A k \in Rows \ {j} : jobs'[k] = jobs[k]
           /\ response'.code = "CONFLICT" <=> (j \in Rows /\ jobs[j].status \in TerminalStatuses)
           /\ response'.code = "NOT_FOUND" <=> j \notin Rows
           /\ response'.code \in {"CONFLICT", "NOT_FOUND"} => jobs' = jobs]_vars

C2_Witness ==
    /\ response.op = "cancel"
    /\ response.code = "OK"
    /\ response.job \in Rows
    /\ jobs[response.job].status = "cancelled"

\* C3: a step a task takes while its job is cancelled is its exit: it starts
\* no further pipeline step, registers no asset and leaves the job cancelled.
C3_CancelObservedAtCheckpoint ==
    [][\A j \in Executing \cap Kept :
         (jobs[j].status = "cancelled" /\ tasks'[j] # tasks[j]) =>
           /\ tasks'[j].pc \in {"done", "crashed"}
           /\ assets' = assets
           /\ jobs'[j].status = "cancelled"]_vars

\* C4: a task that has ended on an existing job row has left the job in a
\* terminal status, and it has not ended by an unhandled exception.
C4_TaskEndsTerminal ==
    \A j \in (DOMAIN tasks) \cap Rows :
       tasks[j].pc \in {"done", "crashed"} =>
         /\ jobs[j].status \in TerminalStatuses
         /\ tasks[j].pc # "crashed"

\* C5: a job carries an output_asset_id if and only if its status is completed.
C5_OutputIffCompleted ==
    \A j \in Rows : (jobs[j].output_asset_id # NoId) <=> (jobs[j].status = "completed")

\* C6: a write to a job's progress never lowers it, except that a transition
\* into a terminal status may set it to 1.0.
C6_ProgressMonotone ==
    [][\A j \in Kept :
         \/ jobs'[j].progress >= jobs[j].progress
         \/ /\ jobs'[j].status \in TerminalStatuses
            /\ jobs'[j].progress = ProgressDone]_vars

\* C7: a job's progress lies in [0.0, 1.0] and is 1.0 whenever the status is
\* completed, failed or cancelled.
C7_ProgressRange ==
    \A j \in Rows :
       /\ jobs[j].progress >= 0 /\ jobs[j].progress <= ProgressDone
       /\ jobs[j].status \in TerminalStatuses => jobs[j].progress = ProgressDone

\* C8: a job's task_id is null until send_task for the job has succeeded, is
\* then the id the broker returned, and never changes once set.
C8_TaskIdSetOnce ==
    [][\A j \in DOMAIN jobs' :
         /\ jobs'[j].task_id # NoId =>
              j \in DOMAIN broker' /\ jobs'[j].task_id = broker'[j].task_id
         /\ (j \in Rows /\ jobs[j].task_id # NoId) => jobs'[j].task_id = jobs[j].task_id]_vars

C8_Witness ==
    \E j \in Rows :
       /\ jobs[j].task_id # NoId
       /\ jobs[j].task_id = broker[j].task_id
       /\ jobs[j].status = "completed"

\* C9: send_task is attempted only for a committed row, which was committed
\* queued with no task_id; when send_task fails the request answers
\* SERVER_ERROR, the failing step changes no row, and from then on the row has
\* no task_id, no task of it exists and its status is queued; only a client's
\* successful cancel request moves it, to cancelled.
C9_DispatchAfterCommit ==
    [][\A j \in DOMAIN requests' :
         /\ requests'[j].pc = "enqueue" =>
              /\ j \in DOMAIN jobs' /\ jobs'[j].task_id = NoId
              /\ j \notin DOMAIN requests => jobs'[j].status = "queued"
         /\ j \in DOMAIN broker' => j \in DOMAIN jobs' /\ requests'[j].pc # "enqueue"
         /\ (j \in DOMAIN requests /\ requests[j].pc = "enqueue" /\ requests'[j].pc = "failed") =>
              /\ response' = [op |-> "create", job |-> j, code |-> "SERVER_ERROR"]
              /\ jobs' = jobs
         /\ requests'[j].pc = "failed" =>
              /\ j \in DOMAIN jobs' /\ j \notin DOMAIN broker'
              /\ jobs'[j].task_id = NoId
              /\ jobs'[j].status \in {"queued", "cancelled"}
              /\ (j \in Rows /\ jobs[j].status = "queued" /\ jobs'[j].status # "queued") =>
                   response' = [op |-> "cancel", job |-> j, code |-> "OK"]]_vars

C9_Witness ==
    \E j \in Rows :
       /\ requests[j].pc = "failed"
       /\ response = [op |-> "create", job |-> j, code |-> "SERVER_ERROR"]
       /\ jobs[j].status = "queued"
       /\ jobs[j].task_id = NoId

EntryAssets(item) ==
    {ItemGet(item, key) : key \in {"asset_id", "uri", "thumbnail_asset_id", "thumbnail_uri",
                                    "subtitle_asset_id", "subtitle_uri"}} \ {NoId}

ClipAssetRefs(job) ==
    LET clip_assets == ClipAssets(job.payload)
    IN UNION {EntryAssets(clip_assets[i]) : i \in DOMAIN clip_assets}

\* referenced-by-job: some Job has the asset as input, as output or in an
\* entry of payload.clip_assets
ReferencedByJob(rows, a) ==
    \E k \in DOMAIN rows :
       \/ rows[k].input_asset_id = a
       \/ rows[k].output_asset_id = a
       \/ a \in ClipAssetRefs(rows[k])

\* C11: a delete request on a queued or running job answers CONFLICT and
\* changes neither the job table nor the assets, with or without
\* delete_assets; a job row disappears only by a delete request answered
\* NO_CONTENT on a job in a terminal status.
C11_DeleteActiveConflicts ==
    [][/\ \A j \in Rows :
            (response'.op = "delete_job" /\ response'.job = j
               /\ jobs[j].status \in {"queued", "running"}) =>
              /\ response'.code = "CONFLICT"
              /\ jobs' = jobs
              /\ assets' = assets
       /\ \A j \in Rows \ DOMAIN jobs' :
            /\ jobs[j].status \in TerminalStatuses
            /\ response' = [op |-> "delete_job", job |-> j, code |-> "NO_CONTENT"]]_vars

C11_Witness ==
    /\ response.op = "delete_job"
    /\ response.code = "CONFLICT"
    /\ response.job \in Rows
    /\ jobs[response.job].status = "running"
    /\ \E k \in DOMAIN requests : k \notin Rows

\* C12: a delete request on an asset that some job references as input, as
\* output or in payload.clip_assets answers CONFLICT and leaves the asset.
C12_ReferencedAssetKept ==
    [][\A a \in DOMAIN assets :
         (response'.op = "delete_asset" /\ response'.job = a /\ ReferencedByJob(jobs, a)) =>
           /\ response'.code = "CONFLICT"
           /\ assets' = assets]_vars

\* C13: a delete request on a job never removes an asset that a surviving
\* job references as input, as output or in payload.clip_assets.
C13_CascadeSparesReferenced ==
    [][response'.op = "delete_job" =>
         \A a \in (DOMAIN assets) \ DOMAIN assets' : ~ReferencedByJob(jobs', a)]_vars

\* C14: once a terminal job is deleted with delete_assets=true the job is gone
\* and so is its output asset and every clip, thumbnail and subtitle asset
\* recorded for its clips that no surviving job references.
C14_CascadeRemovesDerived ==
    [][\A j \in Rows :
         (delete_job(j, TRUE) /\ response'.code = "NO_CONTENT") =>
           /\ j \notin DOMAIN jobs'
           /\ \A a \in ({jobs[j].output_asset_id} \cup ClipAssetRefs(jobs[j])) \ {NoId} :
                ~ReferencedByJob(jobs', a) => a \notin DOMAIN assets']_vars

\* C15: a turn of the cleanup loop removes no file that a MediaAsset row
\* locates, whatever the file's age, and no file younger than the TTL.
C15_CleanupSparesAssets ==
    [][remove_old_files =>
         \A f \in (DOMAIN tmp_files) \ DOMAIN tmp_files' :
            /\ f \notin DOMAIN assets
            /\ now - tmp_files[f] >= CleanupTtlHours]_vars

\* the requests of a client that were admitted at a time in [from, to]
AdmittedWithin(log, key, from, to) ==
    Cardinality({i \in DOMAIN Bucket(log, key) :
                    from <= Bucket(log, key)[i] /\ Bucket(log, key)[i] <= to})

\* C16: a request of a client is refused with RATE_LIMITED exactly when
\* `limit` admitted requests of that client lie within the last
\* window_seconds; a refused request leaves the admitted requests as they
\* were, an admitted one is added to its own client only, and no window of
\* window_seconds ever holds more than `limit` admitted requests of a client.
C16_SlidingWindow ==
    [][(\E client_ip \in ClientKeys : enforce_rate_limit(client_ip)) =>
         LET key == call'.key
             recent == AdmittedWithin(admitted, key,
                                      now - rate_limiter.window_seconds, now)
         IN /\ response'.code = "RATE_LIMITED" <=> recent >= rate_limiter.limit
            /\ response'.code = "RATE_LIMITED" => admitted' = admitted
            /\ response'.code # "RATE_LIMITED" =>
                 admitted' = (key :> Append(Bucket(admitted, key), now)) @@ admitted
            /\ \A k \in ClientKeys : \A from \in 0..now :
                 AdmittedWithin(admitted', k, from, from + rate_limiter.window_seconds)
                    <= rate_limiter.limit]_vars

C16_Witness ==
    /\ response.code = "RATE_LIMITED"
    /\ call.key = "anonymous"
    /\ now > 0
    /\ AdmittedWithin(admitted, "anonymous", 0, now) > rate_limiter.limit
    /\ AdmittedWithin(admitted, "10.0.0.1", 0, now) > 0

\* C17: while an upload is read its running total is within the limit; an
\* upload is refused exactly when a limit M > 0 is set and its N bytes exceed
\* M, by the read that first takes the total over M, leaving no partial file
\* and no asset row; otherwise it is stored whole, and M = 0 sets no limit.
C17_UploadLimit ==
    [][/\ upload'.pc = "reading" =>
            upload'.max_bytes = 0 \/ upload'.total <= upload'.max_bytes
       /\ (upload.pc = "reading" /\ upload'.pc = "rejected") =>
            /\ upload.max_bytes > 0 /\ upload.size > upload.max_bytes
            /\ upload.total <= upload.max_bytes /\ upload'.total > upload.max_bytes
            /\ response'.code = "CONTENT_TOO_LARGE"
            /\ upload.filename \notin DOMAIN tmp_files'
            /\ assets' = assets
       /\ (upload.pc = "reading" /\ upload'.pc = "stored") =>
            /\ upload.max_bytes = 0 \/ upload.size <= upload.max_bytes
            /\ upload.total = upload.size
            /\ response'.code = "CREATED"
            /\ DOMAIN assets' = (DOMAIN assets) \cup {response'.job}
            /\ response'.job \notin DOMAIN assets]_vars

C17_Witness ==
    /\ upload.pc = "rejected"
    /\ upload.size = upload.max_bytes + 1
    /\ upload.filename \notin DOMAIN tmp_files
    /\ upload.filename \notin DOMAIN assets
    /\ response.code = "CONTENT_TOO_LARGE"

\* select_top has returned
Selected == call.fn = "select_top" /\ call.returned

\* one of the two starts no earlier than the other's end + min_gap
Separated(a, b, min_gap) == b.start >= a.end + min_gap \/ a.start >= b.end + min_gap

\* C18: the list select_top returns has at most max_segments elements, each
\* with min_duration <= duration <= max_duration, every two of them separated
\* by at least min_gap, and it is sorted by start.
C18_SelectionWellFormed ==
    Selected =>
      LET S == call.result
      IN /\ Len(S) <= call.max_segments
         /\ \A i \in DOMAIN S :
               call.min_duration <= Duration(S[i]) /\ Duration(S[i]) <= call.max_duration
         /\ \A i, j \in DOMAIN S : i # j => Separated(S[i], S[j], call.min_gap)
         /\ \A i, j \in DOMAIN S : i < j => S[i].start <= S[j].start

C18_Witness ==
    /\ Selected
    /\ call.min_gap > 0
    /\ Len(call.candidates) = 3
    /\ Len(call.result) = 2
    /\ call.max_segments = 2

RECURSIVE SumScores(_)
SumScores(S) == IF S = <<>> THEN 0 ELSE Head(S).score + SumScores(Tail(S))

RECURSIVE SumOver(_, _)
SumOver(list, X) ==
    IF X = {} THEN 0
    ELSE LET i == CHOOSE i \in X : TRUE IN list[i].score + SumOver(list, X \ {i})

\* the best total score of the sets of at most max_segments pairwise
\* separated entries of list, by exhaustive search
BestTotal(list, max_segments, min_gap) ==
    LET feasible == {X \in SUBSET DOMAIN list :
                        /\ Cardinality(X) <= max_segments
                        /\ \A i, j \in X : i # j => Separated(list[i], list[j], min_gap)}
        totals == {SumOver(list, X) : X \in feasible}
    IN CHOOSE best \in totals : \A t \in totals : t <= best

\* the candidates with min_duration <= duration <= max_duration
DurationFiltered ==
    LET InBounds(c) == call.min_duration <= Duration(c) /\ Duration(c) <= call.max_duration
    IN SelectSeq(call.candidates, InBounds)

\* those of them that span some time
DurationFilteredSpans ==
    LET Spans(c) == c.start < c.end IN SelectSeq(DurationFiltered, Spans)

\* C19 (as stated): the total score of the result is the maximum over the
\* sets of at most max_segments duration-filtered candidates that are
\* pairwise separated by min_gap.
C19_SelectionOptimal ==
    Selected =>
      SumScores(call.result) = BestTotal(DurationFiltered, call.max_segments, call.min_gap)

\* C19 (amended): the total score of the result is the DP optimum
\* dp[n][k_max], and for min_gap >= 0 it is the maximum over the sets of at
\* most max_segments duration-filtered candidates with start < end that are
\* pairwise separated by min_gap.
C19_SelectionOptimalOverSpans ==
    Selected =>
      LET intervals == Sorted(DurationFilteredSpans, "end_start")
          k_max == Min(call.max_segments, Len(intervals))
      IN /\ SumScores(call.result) = DP(intervals, call.min_gap, Len(intervals), Max(0, k_max))
         /\ call.min_gap >= 0 =>
              SumScores(call.result)
                 = BestTotal(DurationFilteredSpans, call.max_segments, call.min_gap)

C19_Witness ==
    /\ Selected
    /\ call.min_gap >= 0
    /\ Len(call.result) = 2
    /\ \E i \in DOMAIN call.candidates :
          /\ \A j \in DOMAIN call.result : call.candidates[i].score > call.result[j].score
          /\ call.candidates[i].score < SumScores(call.result)
          /\ call.min_duration <= Duration(call.candidates[i])
          /\ Duration(call.candidates[i]) <= call.max_duration

\* group_words has returned
Grouped == call.fn = "group_words" /\ call.returned

\* the gaps between consecutive words of a line are within max_gap
GapsWithin(line, max_gap) ==
    \A i \in 1..(Len(line.words) - 1) :
       line.words[i + 1].start - line.words[i].end <= max_gap

\* C20 (as stated): every line group_words produces is non-empty, has a text
\* of at most max_chars_per_line characters or a single word, at most
\* max_words_per_line words, lasts at most max_duration, and has no gap
\* between consecutive words above max_gap.
C20_LinesWithinLimits ==
    Grouped =>
      \A n \in DOMAIN call.result :
         LET L == call.result[n]
         IN /\ L.words # <<>>
            /\ Len(LineText(L)) <= call.config.max_chars_per_line \/ Len(L.words) = 1
            /\ Len(L.words) <= call.config.max_words_per_line
            /\ L.end - L.start <= call.config.max_duration
            /\ GapsWithin(L, call.config.max_gap)

\* C20 (amended): every line group_words produces is non-empty and has no
\* gap between consecutive words above max_gap; a line of more than one word
\* has a text of at most max_chars_per_line characters, at most
\* max_words_per_line words and lasts at most max_duration.
C20_LinesWithinLimitsUnlessSingle ==
    Grouped =>
      \A n \in DOMAIN call.result :
         LET L == call.result[n]
         IN /\ L.words # <<>>
            /\ GapsWithin(L, call.config.max_gap)
            /\ Len(L.words) = 1 \/
                 /\ Len(LineText(L)) <= call.config.max_chars_per_line
                 /\ Len(L.words) <= call.config.max_words_per_line
                 /\ L.end - L.start <= call.config.max_duration

C20_Witness ==
    /\ Grouped
    /\ Len(call.result) = 2
    /\ Len(call.result[1].words) = 2
    /\ Len(call.result[2].words) = 1
    /\ call.result[2].end - call.result[2].start > call.config.max_duration
    /\ call.result[2].words[1].start - call.result[1].end <= call.config.max_gap

\* assign_speakers_to_lines has returned
Assigned == call.fn = "assign_speakers_to_lines" /\ call.returned

\* the speaker of the first segment with the largest positive overlap, or None
ArgmaxSpeaker(line, segments) ==
    LET positive == {i \in DOMAIN segments : Overlap(line, segments[i]) > 0}
        largest == {i \in positive :
                       \A k \in positive : Overlap(line, segments[k]) <= Overlap(line, segments[i])}
    IN IF positive = {} THEN "None"
       ELSE segments[CHOOSE i \in largest : \A k \in largest : i <= k].speaker

\* C21: every output line has the start, end and words of its input line, and
\* its speaker is that of the first segment with the largest positive overlap,
\* or None when no segment overlaps the line, whatever the segment list and
\* whatever speaker the input line carried.
C21_SpeakerIsArgmaxOverlap ==
    Assigned =>
      /\ Len(call.result) = Len(call.lines)
      /\ \A n \in DOMAIN call.lines :
            /\ call.result[n].start = call.lines[n].start
            /\ call.result[n].end = call.lines[n].end
            /\ call.result[n].words = call.lines[n].words
            /\ call.result[n].speaker = ArgmaxSpeaker(call.lines[n], call.segments)

\* to_ass_karaoke has returned
Rendered == call.fn = "to_ass_karaoke" /\ call.returned

\* C22: in every line to_ass_karaoke emits, whether its durations are
\* allocated over the tokens or taken from the words' timings, each {\kD}
\* duration is at least 1 centisecond and the durations sum to the line's
\* total centiseconds, hence to no less than the number of tags.
C22_KaraokeDurationsSum ==
    Rendered =>
      \A n \in DOMAIN call.result :
         /\ \A i \in DOMAIN call.result[n] : call.result[n][i] >= 1
         /\ SumSeq(call.result[n]) = LineTotalCs(call.lines[n])
         /\ SumSeq(call.result[n]) >= Len(call.result[n])

FallbackWarning == "Transcription backend failed; falling back to noop"

InSeq(x, s) == \E i \in DOMAIN s : s[i] = x

\* the captions task of job j holds the warning of the noop fallback
FellBack(j) ==
    /\ j \in DOMAIN tasks
    /\ tasks[j].pc = "finish"
    /\ InSeq(FallbackWarning, tasks[j].warnings)

\* job j is completed with a subtitle asset as output and the warning in its payload
CompletedWithWarning(j) ==
    /\ j \in DOMAIN jobs
    /\ jobs[j].status = "completed"
    /\ jobs[j].output_asset_id \in DOMAIN assets
    /\ assets[jobs[j].output_asset_id].kind = "subtitle"
    /\ "warnings" \in DOMAIN jobs[j].payload
    /\ InSeq(FallbackWarning, jobs[j].payload["warnings"])

OfflineMode == offline_mode_enabled

\* C24: while offline mode is enabled, get_storage returns no backend other
\* than the local one, and a captions task runs neither the openai_whisper
\* transcription nor the pyannote diarization.
C24_OfflineUsesNoRemote ==
    OfflineMode =>
      /\ call.fn = "get_storage" => call.result \in {"LocalStorageBackend", "RuntimeError"}
      /\ call.fn = "generate_captions" =>
           call.transcription # "openai_whisper" /\ call.diarization # "pyannote"

\* equal_splits has returned
Split == call.fn = "equal_splits" /\ call.returned

\* C25: equal_splits(D, L) is empty when D <= 0 or L <= 0; otherwise span i
\* (counted from 0) starts at i * L, has a positive length of at most L, ends
\* where the next span starts, and the last span ends at D.
C25_EqualSplitsTile ==
    Split =>
      LET D == call.duration
          L == call.clip_length
          spans == call.result
      IN IF D <= 0 \/ L <= 0 THEN spans = <<>>
         ELSE /\ Len(spans) >= 1
              /\ \A i \in DOMAIN spans :
                    /\ spans[i].start = (i - 1) * L
                    /\ spans[i].end > spans[i].start
                    /\ spans[i].end - spans[i].start <= L
                    /\ i < Len(spans) => spans[i].end = spans[i + 1].start
              /\ spans[Len(spans)].end = D

\* a duration that is no multiple of the clip length: the last span is shorter
C25_Witness ==
    /\ Split
    /\ call.duration = 7 /\ call.clip_length = 3
    /\ Len(call.result) = 3
    /\ call.result[3].end - call.result[3].start = 1

\* update_job has been called on a job that has a row
Updated == call.fn = "update_job" /\ call.calls > 0 /\ call.job \in DOMAIN jobs

\* C26: after update_job with payload P the stored payload holds P's value
\* under every top-level key of P (a nested object as P gives it, not merged
\* with the old one), the previous value under every other key, and no other
\* key; with no payload the stored payload is the previous one.
C26_ShallowMerge ==
    Updated =>
      LET P == call.payload
          old == call.before
          new == jobs[call.job].payload
      IN /\ DOMAIN new = (DOMAIN old) \cup (DOMAIN P)
         /\ \A k \in DOMAIN P : new[k] = P[k]
         /\ \A k \in (DOMAIN old) \ (DOMAIN P) : new[k] = old[k]
         /\ P = EmptyDict => new = old

\* a nested object replaced wholesale while another key is kept
C26_Witness ==
    /\ Updated
    /\ call.before = [options |-> [a |-> JInt(1)], status |-> JStr("translated")]
    /\ call.payload = [options |-> [b |-> JInt(2)]]
    /\ jobs[1].payload = [options |-> [b |-> JInt(2)], status |-> JStr("translated")]

Retrying == call.fn = "run_ffmpeg_with_retries"

\* C27: the helper calls the step at most max_attempts times; no call follows
\* a success, whose result is returned; the wait after failed attempt n is
\* base_delay_seconds * 2^(n-1); the failure is propagated exactly when
\* max_attempts attempts have failed.
C27_RetryBounded ==
    Retrying =>
      LET outcomes == call.outcomes
          failed == {i \in DOMAIN outcomes : outcomes[i] = "failed"}
      IN /\ Len(outcomes) <= call.max_attempts
         /\ \A i \in DOMAIN outcomes : i < Len(outcomes) => outcomes[i] = "failed"
         /\ (call.pc = "returned") = (outcomes # <<>> /\ outcomes[Len(outcomes)] = "ok")
         /\ (call.pc = "raised") = (Cardinality(failed) = call.max_attempts)
         /\ Len(call.slept) = IF call.pc = "raised" THEN call.max_attempts - 1
                              ELSE Cardinality(failed)
         /\ \A n \in DOMAIN call.slept : call.slept[n] = call.base_delay_seconds * Pow2(n - 1)

\* the default of three attempts used up: waits of 2 and 4 for a base delay of 2
C27_Witness ==
    /\ Retrying
    /\ call.max_attempts = DefaultRetryMaxAttempts
    /\ call.pc = "raised"
    /\ call.outcomes = <<"failed", "failed", "failed">>
    /\ call.slept = <<2, 4>>

\* C28: whenever the helper has retried, the job's payload holds retry_step =
\* the step name, retry_attempt = the number of the attempt that failed last
\* before a retry, and retry_max_attempts = the configured maximum.
C28_RetryRecorded ==
    (Retrying /\ call.slept # <<>>) =>
      LET payload == jobs[call.job_id].payload
      IN /\ {"retry_step", "retry_attempt", "retry_max_attempts"} \subseteq DOMAIN payload
         /\ payload["retry_step"] = JStr(call.step)
         /\ payload["retry_attempt"] = JInt(Len(call.slept))
         /\ payload["retry_max_attempts"] = JInt(call.max_attempts)

\* the second retry of a step: retry_attempt has moved from 1 to 2
C28_Witness ==
    /\ Retrying
    /\ call.pc = "attempt"
    /\ Len(call.slept) = 2
    /\ jobs[1].payload["retry_attempt"] = JInt(2)
    /\ jobs[1].payload["max_clips"] = JInt(2)

\* the max_clips the request of job j carried
RequestedMaxClips(j) == Args(j).opts["max_clips"].v

\* C29: the payload of a completed shorts job lists at most as many clips as
\* the max_clips its request asked for.
C29_ClipsWithinMaxClips ==
    \A j \in DOMAIN jobs :
       (/\ jobs[j].job_type = "shorts"
        /\ jobs[j].status = "completed"
        /\ j \in DOMAIN broker)
       => Len(jobs[j].payload["clip_assets"]) <= RequestedMaxClips(j)

\* C30: in every reachable state the input_asset_id and the output_asset_id
\* of every Job row are null or the id of an existing MediaAsset row.
C30_ReferentialIntegrity ==
    \A j \in DOMAIN jobs :
       /\ jobs[j].input_asset_id # NoId => jobs[j].input_asset_id \in DOMAIN assets
       /\ jobs[j].output_asset_id # NoId => jobs[j].output_asset_id \in DOMAIN assets
====
